---- MODULE Spec2Model ----
(***************************************************************************)
(* Ingestion -> normalization -> trend scoring -> alert gating pipeline of *)
(* the social-media trend analysis repository, as a state machine over the *)
(* SQLite tables posts, trends and alert_history.                          *)
(*                                                                         *)
(* Text is a sequence of one-character strings.  Time is an integer number *)
(* of clock ticks; TicksPerHour ticks make one hour.  A clock read returns *)
(* the variable now; the environment advances it with Tick.                *)
(***************************************************************************)
EXTENDS Integers, Sequences, FiniteSets, Bags, TLC

VARIABLES now, hashseed, tables, posts, saved, last,
          trends, run, runs,
          alert_history, alert_config, sent,
          cycles, reprocess,
          engine, created, callers

ingestVars == <<hashseed, posts, saved>>
trendVars == <<trends, run, runs>>
alertVars == <<alert_history, alert_config, sent>>
engineVars == <<engine, created, callers>>
procVars == <<cycles, reprocess, engineVars>>

vars == <<now, tables, last, ingestVars, trendVars, alertVars, procVars>>

(***************************************************************************)
(* Bounds of the model.                                                    *)
(***************************************************************************)
TicksPerHour == 2
MaxNow == 1
MaxPosts == 2
MaxSeed == 1

NULL == 0 - 1

Min(a, b) == IF a < b THEN a ELSE b
Max(a, b) == IF a > b THEN a ELSE b

(***************************************************************************)
(* Character-level string helpers (Python str / re semantics).             *)
(***************************************************************************)
Whitespace == {" ", "\n", "\t"}

Drop(t, n) == SubSeq(t, n + 1, Len(t))

StartsWith(t, p) == Len(t) >= Len(p) /\ SubSeq(t, 1, Len(p)) = p

RECURSIVE Rev(_)
Rev(t) == IF t = <<>> THEN <<>> ELSE Rev(Tail(t)) \o <<Head(t)>>

RECURSIVE LStrip(_)
LStrip(t) ==
    IF t = <<>> THEN <<>>
    ELSE IF Head(t) \in Whitespace THEN LStrip(Tail(t)) ELSE t

\* str.strip()
Strip(t) == Rev(LStrip(Rev(LStrip(t))))

\* re.sub(r'\s+', ' ', t)
RECURSIVE CollapseWs(_)
CollapseWs(t) ==
    IF t = <<>> THEN <<>>
    ELSE IF Head(t) \in Whitespace THEN <<" ">> \o CollapseWs(LStrip(t))
    ELSE <<Head(t)>> \o CollapseWs(Tail(t))

Removed == <<"[", "r", "e", "m", "o", "v", "e", "d", "]">>
Deleted == <<"[", "d", "e", "l", "e", "t", "e", "d", "]">>

\* re.sub(r'\[removed\]|\[deleted\]', '', t): one left-to-right pass
RECURSIVE RemoveMarkers(_)
RemoveMarkers(t) ==
    IF t = <<>> THEN <<>>
    ELSE IF StartsWith(t, Removed) THEN RemoveMarkers(Drop(t, Len(Removed)))
    ELSE IF StartsWith(t, Deleted) THEN RemoveMarkers(Drop(t, Len(Deleted)))
    ELSE <<Head(t)>> \o RemoveMarkers(Tail(t))

RECURSIVE RunLen(_, _)
RunLen(t, ch) ==
    IF t = <<>> \/ Head(t) # ch THEN 0 ELSE 1 + RunLen(Tail(t), ch)

\* re.sub(r'[ch]{k,}', repl, t): every maximal run of ch of length >= k
RECURSIVE CollapseRuns(_, _, _, _)
CollapseRuns(t, ch, k, repl) ==
    IF t = <<>> THEN <<>>
    ELSE LET r == RunLen(t, ch) IN
         IF r >= k THEN repl \o CollapseRuns(Drop(t, r), ch, k, repl)
         ELSE IF r > 0 THEN SubSeq(t, 1, r) \o CollapseRuns(Drop(t, r), ch, k, repl)
         ELSE <<Head(t)>> \o CollapseRuns(Tail(t), ch, k, repl)

\* str.replace(old, new) for one-character old
RECURSIVE ReplaceChar(_, _, _)
ReplaceChar(t, old, new) ==
    IF t = <<>> THEN <<>>
    ELSE <<IF Head(t) = old THEN new ELSE Head(t)>> \o ReplaceChar(Tail(t), old, new)

MaxTextLen == 8000
MinTextLen == 10

\* ContentNormalizer.clean_text.  The quote replacements of the source map
\* the ASCII quote characters to themselves.
clean_text(text) ==
    IF text = <<>> THEN <<>>
    ELSE LET t1 == CollapseWs(Strip(text))
             t2 == RemoveMarkers(t1)
             t3 == CollapseRuns(t2, "!", 2, <<"!">>)
             t4 == CollapseRuns(t3, "?", 2, <<"?">>)
             t5 == CollapseRuns(t4, ".", 3, <<".", ".", ".">>)
             t6 == ReplaceChar(ReplaceChar(t5, "\"", "\""), "'", "'")
         IN  SubSeq(t6, 1, Min(Len(t6), MaxTextLen))

(***************************************************************************)
(* pipeline/features.py: entity extraction.                                *)
(***************************************************************************)
LowerLetters ==
    {"a", "b", "c", "d", "e", "f", "g", "h", "i", "j", "k", "l", "m",
     "n", "o", "p", "q", "r", "s", "t", "u", "v", "w", "x", "y", "z"}
Digits == {"0", "1", "2", "3", "4", "5", "6", "7", "8", "9"}

\* Upper-case letters of the model's input vocabulary and str.lower()
UpperToLower == [c \in {"A", "B", "N"} |->
                    IF c = "A" THEN "a" ELSE IF c = "B" THEN "b" ELSE "n"]
UpperLetters == DOMAIN UpperToLower

LowerChar(c) == IF c \in UpperLetters THEN UpperToLower[c] ELSE c
RECURSIVE Lower(_)
Lower(t) == IF t = <<>> THEN <<>> ELSE <<LowerChar(Head(t))>> \o Lower(Tail(t))

\* \w of the regular expressions
IsWordChar(c) == c \in LowerLetters \cup UpperLetters \cup Digits \cup {"_"}

\* Code-point order of the characters that survive the final alnum filter
CharOrder ==
    <<"0", "1", "2", "3", "4", "5", "6", "7", "8", "9",
      "a", "b", "c", "d", "e", "f", "g", "h", "i", "j", "k", "l", "m",
      "n", "o", "p", "q", "r", "s", "t", "u", "v", "w", "x", "y", "z">>
Ord(c) == IF \E i \in 1..Len(CharOrder) : CharOrder[i] = c
          THEN CHOOSE i \in 1..Len(CharOrder) : CharOrder[i] = c
          ELSE 0

\* Python's str < str
RECURSIVE StrLess(_, _)
StrLess(a, b) ==
    IF b = <<>> THEN FALSE
    ELSE IF a = <<>> THEN TRUE
    ELSE IF Head(a) = Head(b) THEN StrLess(Tail(a), Tail(b))
    ELSE Ord(Head(a)) < Ord(Head(b))

\* sorted(list(set(S)))
RECURSIVE SortedList(_)
SortedList(S) ==
    IF S = {} THEN <<>>
    ELSE LET m == CHOOSE x \in S : \A y \in S \ {x} : StrLess(x, y)
         IN  <<m>> \o SortedList(S \ {m})

SeqToSet(q) == {q[i] : i \in 1..Len(q)}

RECURSIVE IndexOf(_, _, _)
IndexOf(t, ch, from) ==
    IF from > Len(t) THEN 0
    ELSE IF t[from] = ch THEN from ELSE IndexOf(t, ch, from + 1)

\* HTML_PATTERN.sub(' ', t) with HTML_PATTERN = <[^>]+>
RECURSIVE HtmlStrip(_)
HtmlStrip(t) ==
    IF t = <<>> THEN <<>>
    ELSE IF Head(t) = "<" /\ IndexOf(t, ">", 2) > 2
         THEN <<" ">> \o HtmlStrip(Drop(t, IndexOf(t, ">", 2)))
    ELSE <<Head(t)>> \o HtmlStrip(Tail(t))

RECURSIVE WordRunLen(_)
WordRunLen(t) ==
    IF t = <<>> \/ ~IsWordChar(Head(t)) THEN 0 ELSE 1 + WordRunLen(Tail(t))

\* PATTERN.findall(t) for (?i)<sigil>[a-z0-9_]+, lower-cased by the caller
RECURSIVE FindTagged(_, _)
FindTagged(t, sigil) ==
    IF t = <<>> THEN <<>>
    ELSE IF Head(t) = sigil /\ WordRunLen(Tail(t)) > 0
         THEN LET n == 1 + WordRunLen(Tail(t))
              IN  <<Lower(SubSeq(t, 1, n))>> \o FindTagged(Drop(t, n), sigil)
    ELSE FindTagged(Tail(t), sigil)

extract_hashtags(t) == FindTagged(t, "#")
extract_mentions(t) == FindTagged(t, "@")

\* Members of STOP_WORDS that the model's vocabulary can form
STOP_WORDS ==
    { <<"t", "h", "e">>, <<"a", "n", "d">>, <<"n", "o", "w">>,
      <<"m", "e", "t", "a">>, <<"h", "t", "t", "p">>, <<"d", "i", "v">>,
      <<"h", "i", "s">> }

\* Entries of INTERNET_SLANG that the model's vocabulary can form
INTERNET_SLANG(w) ==
    IF w = <<"l", "o", "l">>
    THEN <<"l", "a", "u", "g", "h", "_", "o", "u", "t", "_", "l", "o", "u", "d">>
    ELSE w

IsWordMid(c) == c \in LowerLetters \cup Digits \cup {"_", "'", "-"}
IsWordEnd(c) == c \in LowerLetters \cup Digits \cup {"_"}

RECURSIVE MidRunLen(_)
MidRunLen(t) ==
    IF t = <<>> \/ ~IsWordMid(Head(t)) THEN 0 ELSE 1 + MidRunLen(Tail(t))

\* Length of the match of WORD_PATTERN at the head of t (0: no match):
\* \b[a-z][a-z0-9_'-]+[a-z0-9_]\b, greedy with backtracking
WordMatchLen(t) ==
    IF t = <<>> \/ Head(t) \notin LowerLetters THEN 0
    ELSE LET r == MidRunLen(t)
             ends == {e \in 3..r :
                         /\ IsWordEnd(t[e])
                         /\ (e = Len(t) \/ ~IsWordChar(t[e + 1]))}
         IN  IF ends = {} THEN 0
             ELSE CHOOSE e \in ends : \A f \in ends : f <= e

\* WORD_PATTERN.findall(t); prev is the character before t ("" at the start)
RECURSIVE FindWords(_, _)
FindWords(t, prev) ==
    IF t = <<>> THEN <<>>
    ELSE LET n == IF prev # "" /\ IsWordChar(prev) THEN 0 ELSE WordMatchLen(t)
         IN  IF n > 0 THEN <<SubSeq(t, 1, n)>> \o FindWords(Drop(t, n), t[n])
             ELSE FindWords(Tail(t), Head(t))

IsDigitStr(w) == w # <<>> /\ \A i \in 1..Len(w) : w[i] \in Digits
IsAlnumStr(w) ==
    w # <<>> /\ \A i \in 1..Len(w) : w[i] \in LowerLetters \cup UpperLetters \cup Digits

UrlPrefixes ==
    { <<"h", "t", "t", "p">>, <<"w", "w", "w">>, <<"h", "t", "m", "l">>,
      <<"s", "r", "c">>, <<"h", "r", "e", "f">> }

MinTokenLen == 3

RECURSIVE MapSlang(_)
MapSlang(ws) ==
    IF ws = <<>> THEN <<>> ELSE <<INTERNET_SLANG(Head(ws))>> \o MapSlang(Tail(ws))

\* tokenize(text)
tokenize(text) ==
    IF text = <<>> THEN <<>>
    ELSE LET words == FindWords(Lower(HtmlStrip(text)), "")
             keep(w) ==
                 /\ Len(w) >= MinTokenLen
                 /\ w \notin STOP_WORDS
                 /\ ~IsDigitStr(w)
                 /\ \A i \in 1..Len(w) : w[i] \notin {"<", ">", "{", "}", "[", "]", "(", ")"}
                 /\ \A p \in UrlPrefixes : ~StartsWith(w, p)
                 /\ \A i \in 1..Len(INTERNET_SLANG(w)) : INTERNET_SLANG(w)[i] # "."
         IN  MapSlang(SelectSeq(words, keep))

Count(q, x) == Cardinality({i \in 1..Len(q) : q[i] = x})
FirstIndex(q, x) == CHOOSE i \in 1..Len(q) : q[i] = x /\ \A j \in 1..(i - 1) : q[j] # x

\* Counter(tokens).most_common(top_k): by count descending, ties in order of
\* first occurrence; returned as the sequence of keywords
RECURSIVE MostCommon(_, _, _)
MostCommon(tokens, S, k) ==
    IF S = {} \/ k = 0 THEN <<>>
    ELSE LET before(x, y) ==
                 \/ Count(tokens, x) > Count(tokens, y)
                 \/ /\ Count(tokens, x) = Count(tokens, y)
                    /\ FirstIndex(tokens, x) < FirstIndex(tokens, y)
             m == CHOOSE x \in S : \A y \in S \ {x} : before(x, y)
         IN  <<m>> \o MostCommon(tokens, S \ {m}, k - 1)

extract_keywords(text, top_k) ==
    LET tokens == tokenize(text)
    IN  MostCommon(tokens, SeqToSet(tokens), top_k)

\* Alternatives of entity_patterns that the model's vocabulary can form
PatternWords ==
    { <<"c", "o", "v", "i", "d">>, <<"a", "i">>, <<"m", "e", "t", "a">>,
      <<"n", "b", "a">> }

\* re.findall(r'(?i)\b(w)\b', t) is non-empty
RECURSIVE OccursBounded(_, _, _)
OccursBounded(t, w, prev) ==
    IF Len(t) < Len(w) THEN FALSE
    ELSE \/ /\ (prev = "" \/ ~IsWordChar(prev))
            /\ Lower(SubSeq(t, 1, Len(w))) = w
            /\ (Len(t) = Len(w) \/ ~IsWordChar(t[Len(w) + 1]))
         \/ OccursBounded(Tail(t), w, Head(t))

KeywordTopK == 5
KeywordMinFreq == 2
MinEntityLen == 3

\* The set entities of extract_entities before it is cleaned
EntitySet(text) ==
    LET t == HtmlStrip(text)
        tags == extract_hashtags(t)
        ments == extract_mentions(t)
        kws == extract_keywords(t, KeywordTopK)
        toks == tokenize(t)
    IN  {Tail(tags[i]) : i \in {j \in 1..Len(tags) : Len(tags[j]) > 1}}
        \cup {Tail(ments[i]) : i \in {j \in 1..Len(ments) : Len(ments[j]) > 1}}
        \cup {kws[i] : i \in {j \in 1..Len(kws) : Count(toks, kws[j]) >= KeywordMinFreq}}
        \cup {w \in PatternWords : OccursBounded(t, w, "")}

\* The test of the loop "for entity in entities", on the stripped and
\* lower-cased entity
KeepEntity(e) ==
    /\ Len(e) >= MinEntityLen
    /\ e \notin STOP_WORDS
    /\ ~IsDigitStr(e)
    /\ IsAlnumStr(e)

\* cleaned_entities after the loop has met the entities in the order
\* iterated, the order in which the set hands them out
RECURSIVE CleanedEntities(_)
CleanedEntities(iterated) ==
    IF iterated = <<>> THEN <<>>
    ELSE LET entity == Lower(Strip(Head(iterated)))
         IN  (IF KeepEntity(entity) THEN <<entity>> ELSE <<>>)
                 \o CleanedEntities(Tail(iterated))

\* Mutant: the list is returned as the loop left it
SortedUnique_AsIterated(cleaned_entities) == cleaned_entities

\* sorted(list(set(cleaned_entities)))
SortedUnique(cleaned_entities) == SortedList(SeqToSet(cleaned_entities))

\* extract_entities(text) in a process whose set hands out the entities in
\* the order iterated
extract_entities_iterated(text, iterated) ==
    IF text = <<>> THEN <<>> ELSE SortedUnique(CleanedEntities(iterated))

\* extract_entities(text)
extract_entities(text) ==
    IF text = <<>> THEN <<>>
    ELSE SortedList({e \in {Lower(Strip(x)) : x \in EntitySet(text)} : KeepEntity(e)})

(***************************************************************************)
(* pipeline/normalize.py: normalization of raw records.                    *)
(***************************************************************************)
\* Optional[NormalizedPost]: None is the empty sequence, a value x is <<x>>
None == <<>>
Some(x) == <<x>>

NewLines == <<"\n", "\n">>

\* ','.join(list)
RECURSIVE JoinComma(_)
JoinComma(list) ==
    IF list = <<>> THEN <<>>
    ELSE IF Len(list) = 1 THEN Head(list)
    ELSE Head(list) \o <<",">> \o JoinComma(Tail(list))

\* NormalizedPost.to_dict: the column values handed to the INSERT
to_dict(post) ==
    [id |-> post.id, platform |-> post.platform, text |-> post.text,
     created_at |-> post.created_at,
     hashtags |-> JoinComma(post.hashtags),
     entities |-> JoinComma(post.entities)]

\* ContentNormalizer.normalize_reddit_post
normalize_reddit_post(submission) ==
    LET text == Strip(submission.title \o NewLines \o submission.selftext)
    IN  IF text = <<>> \/ Len(text) < MinTextLen THEN None
        ELSE LET cleaned == clean_text(text)
                 hashtags == extract_hashtags(cleaned)
                 mentions == extract_mentions(cleaned)
             IN  Some([id |-> <<"reddit", submission.id>>,
                  platform |-> "reddit",
                  text |-> cleaned,
                  created_at |-> submission.created_utc,
                  hashtags |-> hashtags,
                  entities |-> hashtags \o mentions])

\* hash((entry_id, iso)) of CPython: a function of the two strings and of
\* the per-process string-hash seed, taken to be collision free
PyHash(entry_id, iso, seed) == <<entry_id, iso, seed>>

\* entry.published_parsed: absent (the empty sequence) or <<time>>
NoDate == <<>>

\* ContentNormalizer.normalize_rss_entry, run at clock value clock in a
\* process whose string-hash seed is seed
normalize_rss_entry(entry, clock, seed) ==
    LET text == Strip(entry.title \o NewLines \o entry.summary)
    IN  IF text = <<>> \/ Len(text) < MinTextLen THEN None
        ELSE LET cleaned == clean_text(text)
                 hashtags == extract_hashtags(cleaned)
                 mentions == extract_mentions(cleaned)
                 pub_date == IF entry.published_parsed # NoDate
                             THEN entry.published_parsed[1] ELSE clock
                 entry_id == IF entry.id # <<>> THEN entry.id ELSE entry.link
             IN  Some([id |-> <<"rss", PyHash(entry_id, pub_date, seed)>>,
                  platform |-> "rss",
                  text |-> cleaned,
                  created_at |-> pub_date,
                  hashtags |-> hashtags,
                  entities |-> hashtags \o mentions])

(***************************************************************************)
(* The posts table.  A table is a bag of rows: SQLite's rowid is not a     *)
(* column of the model, the multiplicity of a row stands for it.           *)
(***************************************************************************)
\* The table without the rows whose id is id
DeletePost(table, id) ==
    [r \in {x \in DOMAIN table : x.id # id} |-> table[r]]

InsertRow(table, row) == table (+) SetToBag({row})

Rows(table) == BagToSet(table)

\* CREATE TABLE IF NOT EXISTS posts (...) of save_post
EnsurePostsTable(tb) ==
    IF tb.posts = "absent" THEN [tb EXCEPT !.posts = "sql"] ELSE tb

\* indexed_at of a row inserted without that column: DEFAULT
\* CURRENT_TIMESTAMP in the table of save_post, no server default in the
\* table that Base.metadata.create_all makes from the Post model
IndexedAtDefault(tb, clock) == IF tb.posts = "sql" THEN clock ELSE NULL

\* Mutant: a plain INSERT into a table without the primary key
InsertOrReplacePost_NoReplace(table, row) == InsertRow(table, row)

\* INSERT OR REPLACE INTO posts: id is the primary key in both schemas
InsertOrReplacePost(table, row) ==
    InsertRow(DeletePost(table, row.id), row)

\* RedditIngester.save_post / RSSIngester.save_post: the table after the
\* transaction has committed.  src is not a column: it remembers the raw
\* record the row was made from.
save_post(table, tb, post, clock, src) ==
    LET d == to_dict(post)
        row == [id |-> d.id, platform |-> d.platform, text |-> d.text,
                created_at |-> d.created_at, hashtags |-> d.hashtags,
                entities |-> d.entities,
                indexed_at |-> IndexedAtDefault(EnsurePostsTable(tb), clock),
                src |-> src]
    IN  InsertOrReplacePost(table, row)

(***************************************************************************)
(* Raw records offered by the sources.                                     *)
(***************************************************************************)
TxtHi == <<"h", "i">>
TxtNews == <<"B", "i", "g", " ", "#", "n", "b", "a", " ", "n", "e", "w", "s">>

EntryLinks == {<<"u", "1">>}
Summaries == {<<>>}

\* A submission whose text is too short, one whose text is long enough
\* only before cleaning, and an edit of it under the same id
Submissions ==
    {[id |-> <<"s", 2>>, title |-> Deleted, selftext |-> <<>>, created_utc |-> 0],
     [id |-> <<"s", 1>>, title |-> Deleted, selftext |-> TxtHi, created_utc |-> 0],
     [id |-> <<"s", 1>>, title |-> TxtNews, selftext |-> <<>>, created_utc |-> 0]}

\* Records offered while trends are computed: their texts carry the
\* entities alpha, beta and gamma, and they were published at time 0 or an hour before
TxtBoth == <<"#", "a", "l", "p", "h", "a", " ", "#", "b", "e", "t", "a">>
TxtThree == TxtBoth \o <<" ", "#", "g", "a", "m", "m", "a">>
TrendSubmissions ==
    {[id |-> <<"s", 1>>, title |-> TxtThree, selftext |-> <<>>,
      created_utc |-> 0 - TicksPerHour],
     [id |-> <<"s", 2>>, title |-> TxtBoth, selftext |-> <<>>, created_utc |-> 0]}

\* An entry with a publish date, the same entry without one, an entry
\* identified by its link only, and an entry whose text is too short
Entries ==
    {[id |-> <<"e", "1">>, link |-> <<"u", "1">>, title |-> TxtNews,
      summary |-> <<>>, published_parsed |-> <<0>>],
     [id |-> <<"e", "1">>, link |-> <<"u", "1">>, title |-> TxtNews,
      summary |-> <<>>, published_parsed |-> NoDate],
     [id |-> <<>>, link |-> <<"u", "1">>, title |-> TxtNews,
      summary |-> <<>>, published_parsed |-> NoDate],
     [id |-> <<"e", "1">>, link |-> <<"u", "1">>, title |-> Deleted,
      summary |-> <<>>, published_parsed |-> NoDate]}

TrendEntries ==
    [id : {<<"e", "1">>}, link : EntryLinks, title : {TxtBoth},
     summary : Summaries, published_parsed : {<<0>>}]

\* The single-entity baseline scenario: ScenarioAlphaPosts posts about alpha
\* in the last 24 hours, posts about beta that are older but within 7 days
ScenarioAlphaPosts == 20
ScenarioBetaPosts == 2
TxtAlpha == <<"#", "a", "l", "p", "h", "a", " ", "n", "e", "w", "s">>
TxtBeta == <<"#", "b", "e", "t", "a", " ", "n", "e", "w", "s">>
AlphaAges == {0, 12, 22}
BetaAges == {25, 100, 167}

AlphaListing(age) ==
    [id : {<<"a", i>> : i \in 1..ScenarioAlphaPosts}, title : {TxtAlpha},
     selftext : {<<>>}, created_utc : {0 - age * TicksPerHour}]

BetaListing(age) ==
    [id : {<<"b", i>> : i \in 1..ScenarioBetaPosts}, title : {TxtBeta},
     selftext : {<<>>}, created_utc : {0 - age * TicksPerHour}]

ScenarioSubmissions ==
    UNION ({AlphaListing(age) : age \in AlphaAges}
           \cup {BetaListing(age) : age \in BetaAges})

\* A post that is about to leave a window of two hours, and one made now
WindowSubmissions ==
    {[id |-> <<"s", 1>>, title |-> TxtThree, selftext |-> <<>>,
      created_utc |-> 1 - 2 * TicksPerHour],
     [id |-> <<"s", 2>>, title |-> TxtBoth, selftext |-> <<>>, created_utc |-> 0]}

\* A submission and an edit of it under the same id, with one more entity
EditedSubmissions ==
    {[id |-> <<"s", 1>>, title |-> TxtBoth, selftext |-> <<>>, created_utc |-> 0],
     [id |-> <<"s", 1>>, title |-> TxtThree, selftext |-> <<>>, created_utc |-> 0]}

AllSubmissions ==
    Submissions \cup TrendSubmissions \cup ScenarioSubmissions \cup WindowSubmissions
        \cup EditedSubmissions
AllEntries == Entries \cup TrendEntries

(***************************************************************************)
(* State after start-up: no table exists yet.  saved is the set of post    *)
(* ids handed to save_post so far; last is the most recent operation that  *)
(* reports an outcome, with that outcome.                                  *)
(***************************************************************************)
NoTables == [posts |-> "absent", trends |-> "absent", alert_history |-> "absent"]

\* The browser sessions of the dashboard, each with its own script thread
MaxSessions == 2
Sessions == 1..MaxSessions

\* No session runs a cycle
NoCycles == [s \in Sessions |-> "idle"]

\* No reprocess_entities script is running; rows is the list it fetched
NoReprocess == [pc |-> "idle", rows |-> {}]

\* The threads of the process that call get_engine
MaxThreads == 2
Threads == 1..MaxThreads

\* _engine = None, and no thread has called get_engine; engines are numbered
\* in the order of their creation
NoEngine == 0
NoCallers == [t \in Threads |-> [pc |-> "idle", returned |-> NoEngine]]

\* No trend run in progress: the fields other than pc are those of the
\* most recent run
IdleRun ==
    [pc |-> "idle", window_hours |-> 0, baseline_hours |-> 0, min_count |-> 0,
     current_df |-> EmptyBag, merged |-> <<>>, frame |-> <<>>]

NoAlertConfig == [present |-> FALSE, enabled |-> FALSE]

InitCommon ==
    /\ now = 0
    /\ tables = NoTables
    /\ posts = EmptyBag
    /\ saved = {}
    /\ last = [op |-> "start", result |-> "none"]
    /\ trends = EmptyBag
    /\ run = IdleRun
    /\ runs = 0
    /\ alert_history = EmptyBag
    /\ alert_config = NoAlertConfig
    /\ sent = <<>>
    /\ cycles = NoCycles
    /\ reprocess = NoReprocess
    /\ engine = NoEngine
    /\ created = 0
    /\ callers = NoCallers

InitIngest ==
    /\ InitCommon
    /\ hashseed \in 0..MaxSeed

\* The loop bodies below normalize a record and then replace its entities
\* by extract_entities(text).  Both depend on the record only, up to the
\* clock value and the hash seed, so they are tabulated once per record.
WithEntities(np) ==
    IF np = None THEN None
    ELSE Some([np[1] EXCEPT !.entities = extract_entities(np[1].text)])

SubmissionTable ==
    {<<submission, WithEntities(normalize_reddit_post(submission))>> :
        submission \in AllSubmissions}

EntryTable ==
    {<<entry, clock, seed, WithEntities(normalize_rss_entry(entry, clock, seed))>> :
        entry \in AllEntries, clock \in 0..MaxNow, seed \in 0..MaxSeed}

ProcessedSubmission(submission) ==
    (CHOOSE p \in SubmissionTable : p[1] = submission)[2]

ProcessedEntry(entry, clock, seed) ==
    (CHOOSE p \in EntryTable : p[1] = entry /\ p[2] = clock /\ p[3] = seed)[4]

PostIds(table) == {r.id : r \in Rows(table)}

\* The model keeps at most MaxPosts rows in posts
RoomFor(table, id) == id \in PostIds(table) \/ BagCardinality(table) < MaxPosts

SaveResult(table, id) == IF id \in PostIds(table) THEN "replaced" ELSE "inserted"

\* One iteration of the loop of RedditIngester.ingest_subreddit
IngestSubmission(submission) ==
    LET np == ProcessedSubmission(submission) IN
    /\ IF np = None
       THEN /\ UNCHANGED <<posts, tables, saved>>
            /\ last' = [op |-> "ingest_reddit", result |-> "rejected"]
       ELSE LET post == np[1] IN
            /\ RoomFor(posts, post.id)
            /\ posts' = save_post(posts, tables, post, now, submission)
            /\ tables' = EnsurePostsTable(tables)
            /\ saved' = saved \cup {post.id}
            /\ last' = [op |-> "ingest_reddit", result |-> SaveResult(posts, post.id)]
    /\ UNCHANGED <<now, hashseed, trendVars, alertVars, procVars>>

\* One iteration of the loop of RSSIngester.ingest_feed
IngestEntry(entry) ==
    LET np == ProcessedEntry(entry, now, hashseed) IN
    /\ IF np = None
       THEN /\ UNCHANGED <<posts, tables, saved>>
            /\ last' = [op |-> "ingest_rss", result |-> "rejected"]
       ELSE LET post == np[1] IN
            /\ RoomFor(posts, post.id)
            /\ posts' = save_post(posts, tables, post, now, entry)
            /\ tables' = EnsurePostsTable(tables)
            /\ saved' = saved \cup {post.id}
            /\ last' = [op |-> "ingest_rss", result |-> SaveResult(posts, post.id)]
    /\ UNCHANGED <<now, hashseed, trendVars, alertVars, procVars>>

\* The loop of RedditIngester.ingest_subreddit over a whole listing, every
\* save at clock value clock
RECURSIVE ingest_subreddit(_, _, _, _)
ingest_subreddit(table, tb, submissions, clock) ==
    IF submissions = {} THEN table
    ELSE LET submission == CHOOSE x \in submissions : TRUE
             np == ProcessedSubmission(submission)
             next == IF np = None THEN table
                     ELSE save_post(table, tb, np[1], clock, submission)
         IN  ingest_subreddit(next, tb, submissions \ {submission}, clock)

\* The loop of RSSIngester.ingest_feed over the entries of a feed
RECURSIVE ingest_feed(_, _, _, _, _)
ingest_feed(table, tb, entries, clock, seed) ==
    IF entries = {} THEN table
    ELSE LET entry == CHOOSE x \in entries : TRUE
             np == ProcessedEntry(entry, clock, seed)
             next == IF np = None THEN table
                     ELSE save_post(table, tb, np[1], clock, entry)
         IN  ingest_feed(next, tb, entries \ {entry}, clock, seed)

\* Base.metadata.create_all of init_database: creates the missing tables
\* from the ORM models
create_all(tb) == [t \in DOMAIN tb |-> IF tb[t] = "absent" THEN "orm" ELSE tb[t]]

InitDatabase ==
    /\ tables' = create_all(tables)
    /\ UNCHANGED <<now, last, ingestVars, trendVars, alertVars, procVars>>

\* The ingester runs in a new interpreter process: a new string-hash seed
NewProcess ==
    /\ \E s \in 0..MaxSeed : s # hashseed /\ hashseed' = s
    /\ UNCHANGED <<now, tables, posts, saved, last, trendVars, alertVars, procVars>>

\* Time passes
Tick ==
    /\ now < MaxNow
    /\ now' = now + 1
    /\ UNCHANGED <<tables, last, ingestVars, trendVars, alertVars, procVars>>

NextIngest ==
    \/ \E submission \in Submissions : IngestSubmission(submission)
    \/ \E entry \in Entries : IngestEntry(entry)
    \/ InitDatabase
    \/ NewProcess
    \/ Tick

SpecIngest == InitIngest /\ [][NextIngest]_vars

(***************************************************************************)
(* A whole batch.  An item of a batch is a raw record with what goes wrong *)
(* while it is processed: nothing, an exception inside the normalizer      *)
(* (which returns None for it), an exception of extract_entities, or an    *)
(* exception of the INSERT of save_post.                                   *)
(***************************************************************************)
MaxBatch == 3

Raises == {"none", "normalize", "extract", "insert"}

\* Records that are long enough: two submissions, an entry with an id and
\* one identified by its link
BatchSubmissions == TrendSubmissions

BatchEntries == {e \in Entries : e.title = TxtNews /\ (e.id = <<>> \/ e.published_parsed # NoDate)}

Listings(records) ==
    UNION {[1..n -> [record : records, raises : Raises]] : n \in 1..MaxBatch}

\* Mutant: the first exception ends the loop
OnError_Abort(listing) == <<>>

\* except Exception: ... continue
OnError(listing) == Tail(listing)

\* for ... in ...: try: normalize, extract_entities, save_post,
\* ingested_count += 1; except Exception: continue.  nps holds, item by
\* item, what the normalizer and extract_entities make of the record.
RECURSIVE IngestLoop(_, _, _, _, _)
IngestLoop(table, tb, listing, nps, clock) ==
    IF listing = <<>> THEN [posts |-> table, tables |-> tb, ingested_count |-> 0]
    ELSE LET item == Head(listing)
             np == IF item.raises = "normalize" THEN None ELSE Head(nps)
         IN  IF np = None
             THEN IngestLoop(table, tb, Tail(listing), Tail(nps), clock)
             ELSE IF item.raises = "extract"
             THEN IngestLoop(table, tb, OnError(listing),
                             SubSeq(nps, Len(nps) - Len(OnError(listing)) + 1, Len(nps)),
                             clock)
             ELSE IF item.raises = "insert"
             THEN IngestLoop(table, EnsurePostsTable(tb), OnError(listing),
                             SubSeq(nps, Len(nps) - Len(OnError(listing)) + 1, Len(nps)),
                             clock)
             ELSE LET rest == IngestLoop(save_post(table, tb, np[1], clock, item.record),
                                         EnsurePostsTable(tb), Tail(listing),
                                         Tail(nps), clock)
                  IN  [rest EXCEPT !.ingested_count = @ + 1]

\* What the batch was and what it met, kept for the claims: the items with
\* the post each would make, and posts as it was before the batch
BatchItems(listing, nps) ==
    [i \in 1..Len(listing) |-> [np |-> nps[i], raises |-> listing[i].raises]]

\* RedditIngester.ingest_subreddit on a listing
IngestSubredditBatch(listing) ==
    LET nps == [i \in 1..Len(listing) |-> ProcessedSubmission(listing[i].record)]
        done == IngestLoop(posts, tables, listing, nps, now)
    IN  /\ last.op = "start"
        /\ posts' = done.posts
        /\ tables' = done.tables
        /\ saved' = PostIds(done.posts)
        /\ last' = [op |-> "ingest_subreddit", result |-> "returned",
                    ingested_count |-> done.ingested_count,
                    items |-> BatchItems(listing, nps), before |-> posts]
        /\ UNCHANGED <<now, hashseed, trendVars, alertVars, procVars>>

\* RSSIngester.ingest_feed on the entries of a feed
IngestFeedBatch(listing) ==
    LET nps == [i \in 1..Len(listing) |->
                    ProcessedEntry(listing[i].record, now, hashseed)]
        done == IngestLoop(posts, tables, listing, nps, now)
    IN  /\ last.op = "start"
        /\ posts' = done.posts
        /\ tables' = done.tables
        /\ saved' = PostIds(done.posts)
        /\ last' = [op |-> "ingest_feed", result |-> "returned",
                    ingested_count |-> done.ingested_count,
                    items |-> BatchItems(listing, nps), before |-> posts]
        /\ UNCHANGED <<now, hashseed, trendVars, alertVars, procVars>>


(***************************************************************************)
(* Arithmetic of the trend scorer.  A float is kept exactly: a fraction    *)
(* [n, d] with d > 0, where d = 0 stands for float('inf') and n = d = 0    *)
(* for NaN; a score [n, d, rn, rd] is the fraction n/d divided by the      *)
(* square root of rn/rd, which is how a standard deviation enters.         *)
(***************************************************************************)
Abs(x) == IF x < 0 THEN 0 - x ELSE x
Sign(x) == IF x < 0 THEN 0 - 1 ELSE IF x > 0 THEN 1 ELSE 0

RECURSIVE Gcd(_, _)
Gcd(a, b) == IF b = 0 THEN a ELSE Gcd(b, a % b)

Rat(n, d) ==
    LET g == Gcd(Abs(n), Abs(d))
    IN  IF g = 0 THEN [n |-> 0, d |-> 0]
        ELSE [n |-> (IF d < 0 THEN 0 - n ELSE n) \div g, d |-> Abs(d) \div g]

Inf == [n |-> 1, d |-> 0]
IsInf(q) == q.d = 0 /\ q.n # 0
RatLess(a, b) == a.n * b.d < b.n * a.d
RatMul(a, b) == Rat(a.n * b.n, a.d * b.d)
RatAdd(a, b) == Rat(a.n * b.d + b.n * a.d, a.d * b.d)

\* q / sqrt(v)
Real(q, v) == [n |-> q.n, d |-> q.d, rn |-> v.n, rd |-> v.d]
Times(x, q) ==
    LET p == RatMul([n |-> x.n, d |-> x.d], q)
    IN  [x EXCEPT !.n = p.n, !.d = p.d]
Square(x) == Rat(x.n * x.n * x.rd, x.d * x.d * x.rn)
RealLess(x, y) ==
    IF Sign(x.n) # Sign(y.n) THEN Sign(x.n) < Sign(y.n)
    ELSE IF Sign(x.n) > 0 THEN RatLess(Square(x), Square(y))
    ELSE IF Sign(x.n) < 0 THEN RatLess(Square(y), Square(x))
    ELSE FALSE

RECURSIVE SumOf(_, _)
SumOf(f, S) ==
    IF S = {} THEN 0
    ELSE LET x == CHOOSE y \in S : TRUE IN f[x] + SumOf(f, S \ {x})

(***************************************************************************)
(* TrendAnalyzer.get_entity_counts.  The created_at column of the query    *)
(* only orders its rows and is left out.                                   *)
(***************************************************************************)
HoursPerDay == 24

\* DATE(created_at)
Date(t) == t \div (HoursPerDay * TicksPerHour)

\* str.split(',')
RECURSIVE SplitComma(_)
SplitComma(t) ==
    LET i == IndexOf(t, ",", 1)
    IN  IF i = 0 THEN <<t>>
        ELSE <<SubSeq(t, 1, i - 1)>> \o SplitComma(Drop(t, i))

\* WHERE datetime(created_at) > datetime('now', '-H hours')
\*   AND entities IS NOT NULL AND entities != ''
InWindow(r, clock, hours_back) ==
    /\ r.created_at > clock - hours_back * TicksPerHour
    /\ r.entities # <<>>

\* GROUP BY entities, platform, DATE(created_at)
GroupKey(r) == <<r.entities, r.platform, Date(r.created_at)>>

\* The loop over row['entities'].split(','): the rows of one query row
RECURSIVE ExplodeEntities(_, _, _)
ExplodeEntities(entities, platform, post_count) ==
    IF entities = <<>> THEN EmptyBag
    ELSE LET entity == Strip(Head(entities))
             rest == ExplodeEntities(Tail(entities), platform, post_count)
         IN  IF entity = <<>> THEN rest
             ELSE SetToBag({[entity |-> entity, platform |-> platform,
                             post_count |-> post_count]}) (+) rest

\* The loop over df.iterrows(): keys are the groups of the query, selected
\* the posts it counts
RECURSIVE ExplodeGroups(_, _, _)
ExplodeGroups(keys, table, selected) ==
    IF keys = {} THEN EmptyBag
    ELSE LET k == CHOOSE x \in keys : TRUE
             post_count == SumOf(table, {r \in selected : GroupKey(r) = k})
         IN  ExplodeEntities(SplitComma(k[1]), k[2], post_count)
             (+) ExplodeGroups(keys \ {k}, table, selected)

\* The bag of exploded rows entity, platform, post_count; empty when the
\* query raises (no posts table) or selects nothing
get_entity_counts(table, tb, clock, hours_back) ==
    IF tb.posts = "absent" THEN EmptyBag
    ELSE LET selected == {r \in Rows(table) : InWindow(r, clock, hours_back)}
         IN  ExplodeGroups({GroupKey(r) : r \in selected}, table, selected)

(***************************************************************************)
(* TrendAnalyzer.calculate_trend_scores.                                   *)
(***************************************************************************)
Pairs(df) == {<<r.entity, r.platform>> : r \in DOMAIN df}

\* df.groupby(['entity', 'platform'])['post_count'].sum()
GroupCount(df, pair) ==
    SumOf([r \in DOMAIN df |-> r.post_count * df[r]],
          {r \in DOMAIN df : r.entity = pair[1] /\ r.platform = pair[2]})

\* pd.merge(current_counts, baseline_counts, how='left') and fillna(0)
Merged(current_df, baseline_df) ==
    {[entity |-> p[1], platform |-> p[2],
      current_count |-> GroupCount(current_df, p),
      baseline_count |-> GroupCount(baseline_df, p)] : p \in Pairs(current_df)}

\* Mutant: the minimum-count filter keeps every row
KeepRow_All(row, min_count) == TRUE

\* merged['current_count'] >= self.min_count
KeepRow(row, min_count) == row.current_count >= min_count

\* Order of the grouped frames: by entity, then by platform
PlatformRank(p) == IF p = "reddit" THEN 1 ELSE 2
MergedLess(a, b) ==
    \/ StrLess(a.entity, b.entity)
    \/ a.entity = b.entity /\ PlatformRank(a.platform) < PlatformRank(b.platform)

RECURSIVE SortRows(_)
SortRows(S) ==
    IF S = {} THEN <<>>
    ELSE LET m == CHOOSE x \in S : \A y \in S \ {x} : MergedLess(x, y)
         IN  <<m>> \o SortRows(S \ {m})

\* Series.unique(): first occurrences, in order
RECURSIVE Unique(_)
Unique(q) ==
    IF q = <<>> THEN <<>>
    ELSE <<Head(q)>> \o Unique(SelectSeq(Tail(q), LAMBDA x : x # Head(q)))

\* merged['platform']
RECURSIVE PlatformColumn(_)
PlatformColumn(q) ==
    IF q = <<>> THEN <<>> ELSE <<Head(q).platform>> \o PlatformColumn(Tail(q))

\* sum of platform_data['baseline_count']
RECURSIVE BaselineSum(_)
BaselineSum(q) ==
    IF q = <<>> THEN 0 ELSE Head(q).baseline_count + BaselineSum(Tail(q))

\* sum of the squares of platform_data['baseline_count']
RECURSIVE BaselineSumSq(_)
BaselineSumSq(q) ==
    IF q = <<>> THEN 0
    ELSE Head(q).baseline_count * Head(q).baseline_count + BaselineSumSq(Tail(q))

\* Mutant: a zero standard deviation is used as it is
StdOrOne_Unguarded(v) == v

\* if baseline_std == 0: baseline_std = 1   (v is the variance)
StdOrOne(v) == IF v.n = 0 /\ v.d # 0 THEN Rat(1, 1) ELSE v

\* Series.std(): the sample standard deviation (ddof=1) of k values with
\* sum S and sum of squares SS, as its square
SampleVar(k, S, SS) == Rat(k * SS - S * S, k * (k - 1))

GrowthCap == 5
VelocityBoost == Rat(6, 5)

\* Mutant: the velocity boost is applied to z_score, not to the boosted score
ScoreRow_BoostsApart(row, k, S, var, current_hours, baseline_hours) ==
    LET c == row.current_count
        b == row.baseline_count
        z_score == Real(Rat(c * k - S, k), var)
        growth_rate == IF b > 0 THEN Rat(c - b, b)
                       ELSE IF c > 0 THEN Inf ELSE Rat(0, 1)
        velocity == Rat(c, current_hours)
        capped == IF IsInf(growth_rate) \/ RatLess(Rat(GrowthCap, 1), growth_rate)
                  THEN Rat(GrowthCap, 1) ELSE growth_rate
        boosted == IF IsInf(growth_rate) \/ RatLess(Rat(1, 1), growth_rate)
                   THEN Times(z_score, RatAdd(Rat(1, 1), capped))
                   ELSE z_score
        trend_score == IF RatLess(Rat(S, k * baseline_hours), velocity)
                       THEN Times(z_score, VelocityBoost)
                       ELSE boosted
    IN  [entity |-> row.entity, platform |-> row.platform,
         current_count |-> c, baseline_count |-> b,
         trend_score |-> trend_score, growth_rate |-> growth_rate,
         velocity |-> velocity, z_score |-> z_score]

\* The body of the loop over platform_data.iterrows(), without created_at
ScoreRow(row, k, S, var, current_hours, baseline_hours) ==
    LET c == row.current_count
        b == row.baseline_count
        z_score == Real(Rat(c * k - S, k), var)
        growth_rate == IF b > 0 THEN Rat(c - b, b)
                       ELSE IF c > 0 THEN Inf ELSE Rat(0, 1)
        velocity == Rat(c, current_hours)
        capped == IF IsInf(growth_rate) \/ RatLess(Rat(GrowthCap, 1), growth_rate)
                  THEN Rat(GrowthCap, 1) ELSE growth_rate
        boosted == IF IsInf(growth_rate) \/ RatLess(Rat(1, 1), growth_rate)
                   THEN Times(z_score, RatAdd(Rat(1, 1), capped))
                   ELSE z_score
        trend_score == IF RatLess(Rat(S, k * baseline_hours), velocity)
                       THEN Times(boosted, VelocityBoost)
                       ELSE boosted
    IN  [entity |-> row.entity, platform |-> row.platform,
         current_count |-> c, baseline_count |-> b,
         trend_score |-> trend_score, growth_rate |-> growth_rate,
         velocity |-> velocity, z_score |-> z_score]

RECURSIVE ScoreRows(_, _, _, _, _, _)
ScoreRows(q, k, S, var, current_hours, baseline_hours) ==
    IF q = <<>> THEN <<>>
    ELSE <<ScoreRow(Head(q), k, S, var, current_hours, baseline_hours)>>
         \o ScoreRows(Tail(q), k, S, var, current_hours, baseline_hours)

MinGroupSize == 2

\* Mutant: no group is skipped
SkipGroup_Never(platform_data) == FALSE

\* if len(platform_data) < 2: continue
SkipGroup(platform_data) == Len(platform_data) < MinGroupSize

\* One iteration of the loop over merged['platform'].unique()
ScoreGroup(platform_data, current_hours, baseline_hours) ==
    IF SkipGroup(platform_data) THEN <<>>
    ELSE LET k == Len(platform_data)
             S == BaselineSum(platform_data)
             SS == BaselineSumSq(platform_data)
             var == StdOrOne(SampleVar(k, S, SS))
         IN  ScoreRows(platform_data, k, S, var, current_hours, baseline_hours)

RECURSIVE ScoreGroups(_, _, _, _)
ScoreGroups(platforms, merged, current_hours, baseline_hours) ==
    IF platforms = <<>> THEN <<>>
    ELSE ScoreGroup(SelectSeq(merged, LAMBDA r : r.platform = Head(platforms)),
                    current_hours, baseline_hours)
         \o ScoreGroups(Tail(platforms), merged, current_hours, baseline_hours)

\* merged after the minimum-count filter, in the order of the grouped frames
Filtered(current_df, baseline_df, min_count) ==
    SortRows({row \in Merged(current_df, baseline_df) : KeepRow(row, min_count)})

\* The list results of calculate_trend_scores, without created_at
Results(merged, current_hours, baseline_hours) ==
    ScoreGroups(Unique(PlatformColumn(merged)), merged, current_hours,
                baseline_hours)

\* 'created_at': datetime.now() is evaluated once per row: the first k rows
\* read clock, the clock then advances and the other rows read clock + 1
RECURSIVE Stamp(_, _, _)
Stamp(results, k, clock) ==
    IF results = <<>> THEN <<>>
    ELSE <<[entity |-> Head(results).entity, platform |-> Head(results).platform,
            current_count |-> Head(results).current_count,
            baseline_count |-> Head(results).baseline_count,
            trend_score |-> Head(results).trend_score,
            growth_rate |-> Head(results).growth_rate,
            velocity |-> Head(results).velocity,
            z_score |-> Head(results).z_score,
            created_at |-> IF k > 0 THEN clock ELSE clock + 1]>>
         \o Stamp(Tail(results), k - 1, clock)

RECURSIVE Perms(_)
Perms(S) ==
    IF S = {} THEN {<<>>}
    ELSE UNION {{<<x>> \o p : p \in Perms(S \ {x})} : x \in S}

\* trend_df.sort_values('trend_score', ascending=False): the order of rows
\* with equal scores is not determined
sort_values(results) ==
    {f \in Perms(SeqToSet(results)) :
        \A i \in 1..(Len(f) - 1) : ~RealLess(f[i].trend_score, f[i + 1].trend_score)}

(***************************************************************************)
(* TrendAnalyzer.save_trends.  run and min_count are not columns: they     *)
(* remember the trend run that persisted the row and its min_count.        *)
(***************************************************************************)
\* CREATE TABLE IF NOT EXISTS trends (... UNIQUE(entity, platform, created_at))
EnsureTrendsTable(tb) ==
    IF tb.trends = "absent" THEN [tb EXCEPT !.trends = "sql"] ELSE tb

GrowthSentinel == 999

\* Mutant: growth_rate is stored as computed
StoredGrowth_Raw(g) == g

\* float(growth_rate) if not math.isinf(growth_rate) else 999.0
StoredGrowth(g) == IF IsInf(g) THEN Rat(GrowthSentinel, 1) ELSE g

\* The table without the rows that conflict with row on
\* UNIQUE(entity, platform, created_at)
DeleteTrend(table, row) ==
    [r \in {x \in DOMAIN table : ~(/\ x.entity = row.entity
                                   /\ x.platform = row.platform
                                   /\ x.created_at = row.created_at)} |-> table[r]]

\* INSERT OR REPLACE INTO trends: the table made by save_trends has the
\* UNIQUE constraint, the table made from the Trend model has none
InsertOrReplaceTrend(table, tb, row) ==
    IF tb.trends = "sql"
    THEN InsertRow(DeleteTrend(table, row), row)
    ELSE InsertRow(table, row)

RECURSIVE InsertTrends(_, _, _, _, _)
InsertTrends(table, tb, frame, runid, min_count) ==
    IF frame = <<>> THEN table
    ELSE LET row == Head(frame)
             stored == [entity |-> row.entity, platform |-> row.platform,
                        current_count |-> row.current_count,
                        baseline_count |-> row.baseline_count,
                        trend_score |-> row.trend_score,
                        growth_rate |-> StoredGrowth(row.growth_rate),
                        velocity |-> row.velocity, z_score |-> row.z_score,
                        created_at |-> row.created_at,
                        run |-> runid, min_count |-> min_count]
         IN  InsertTrends(InsertOrReplaceTrend(table, tb, stored), tb,
                          Tail(frame), runid, min_count)

save_trends(table, tb, frame, runid, min_count) ==
    InsertTrends(table, EnsureTrendsTable(tb), frame, runid, min_count)

\* Mutant: every statement commits on its own
Rollback_Autocommit(before, partial) == partial

\* with self.engine.begin() as conn: the block raised, the transaction is
\* rolled back and the rows inserted so far are gone
Rollback(before, partial) == before

\* save_trends when the INSERT of row number fail_at raises: the table
\* after the exception has left the with block
save_trends_raising(table, tb, frame, runid, min_count, fail_at) ==
    Rollback(table, save_trends(table, tb, SubSeq(frame, 1, fail_at - 1), runid,
                                min_count))

(***************************************************************************)
(* A trend run (run_trend_analysis, compute_trends): the two reads of      *)
(* posts are two queries, other writers may commit between them.           *)
(***************************************************************************)
MaxRuns == 2

\* window_hours and baseline_hours of a run: the current window inside the
\* baseline window, and the reverse
WindowPairs == {<<1, 2>>, <<2, 1>>}
MinCounts == {1, 2}

\* calculate_trend_scores up to its return on an empty current frame
TrendReadCurrent(window_hours, baseline_hours, min_count) ==
    /\ run.pc = "idle"
    /\ runs < MaxRuns
    /\ LET current_df == get_entity_counts(posts, tables, now, window_hours)
           started == [pc |-> "scoring", window_hours |-> window_hours,
                       baseline_hours |-> baseline_hours, min_count |-> min_count,
                       current_df |-> current_df, merged |-> <<>>,
                       frame |-> <<>>]
       IN  IF DOMAIN current_df = {}
           THEN /\ run' = [started EXCEPT !.pc = "idle"]
                /\ last' = [op |-> "trend_run", result |-> "empty"]
           ELSE /\ run' = started
                /\ UNCHANGED last
    /\ UNCHANGED <<now, tables, ingestVars, trends, runs, alertVars, procVars>>

\* The rest of calculate_trend_scores, and save_trends on its result.  With
\* an empty baseline frame the current frame is returned unscored and
\* save_trends raises on its missing columns, after CREATE TABLE.
TrendScoreAndSave ==
    /\ run.pc = "scoring"
    /\ LET baseline_df == get_entity_counts(posts, tables, now, run.baseline_hours)
           merged == Filtered(run.current_df, baseline_df, run.min_count)
           results == Results(merged, run.window_hours, run.baseline_hours)
       IN  IF DOMAIN baseline_df = {}
           THEN /\ run' = [run EXCEPT !.pc = "idle"]
                /\ tables' = EnsureTrendsTable(tables)
                /\ last' = [op |-> "trend_run", result |-> "unscored"]
                /\ UNCHANGED <<now, trends>>
           ELSE IF results = <<>>
           THEN /\ run' = [run EXCEPT !.pc = "idle", !.merged = merged]
                /\ last' = [op |-> "trend_run", result |-> "empty"]
                /\ UNCHANGED <<now, tables, trends>>
           ELSE \E k \in 1..Len(results) :
                  \E frame \in sort_values(Stamp(results, k, now)) :
                    /\ k < Len(results) => now < MaxNow
                    /\ now' = IF k < Len(results) THEN now + 1 ELSE now
                    /\ trends' = save_trends(trends, tables, frame, runs + 1,
                                             run.min_count)
                    /\ tables' = EnsureTrendsTable(tables)
                    /\ run' = [run EXCEPT !.pc = "idle", !.merged = merged,
                                           !.frame = frame]
                    /\ last' = [op |-> "trend_run", result |-> "saved"]
    /\ runs' = runs + 1
    /\ UNCHANGED <<ingestVars, alertVars, procVars>>

\* The baseline scan, the scores and a save_trends in which the database
\* raises on one of the INSERT statements; save_trends logs and re-raises
TrendScoreAndSaveRaises ==
    /\ run.pc = "scoring"
    /\ LET baseline_df == get_entity_counts(posts, tables, now, run.baseline_hours)
           merged == Filtered(run.current_df, baseline_df, run.min_count)
           results == Results(merged, run.window_hours, run.baseline_hours)
       IN  /\ DOMAIN baseline_df # {}
           /\ results # <<>>
           /\ \E k \in 1..Len(results) :
                 \E frame \in sort_values(Stamp(results, k, now)) :
                   \E fail_at \in 1..Len(frame) :
                     /\ k < Len(results) => now < MaxNow
                     /\ now' = IF k < Len(results) THEN now + 1 ELSE now
                     /\ trends' = save_trends_raising(trends, tables, frame,
                                                      runs + 1, run.min_count,
                                                      fail_at)
                     /\ tables' = EnsureTrendsTable(tables)
                     /\ run' = [run EXCEPT !.pc = "idle", !.merged = merged,
                                            !.frame = frame]
                     /\ last' = [op |-> "trend_run", result |-> "raised",
                                 fail_at |-> fail_at]
    /\ runs' = runs + 1
    /\ UNCHANGED <<ingestVars, alertVars, procVars>>

InitTrends ==
    /\ InitCommon
    /\ hashseed = 0

\* Ingestion interleaved with one trend run; several runs follow each other
\* under SpecHistory
NextTrends ==
    \/ \E submission \in TrendSubmissions : IngestSubmission(submission)
    \/ \E entry \in TrendEntries : IngestEntry(entry)
    \/ InitDatabase
    \/ Tick
    \/ \E wb \in WindowPairs, m \in MinCounts :
           runs = 0 /\ TrendReadCurrent(wb[1], wb[2], m)
    \/ TrendScoreAndSave

SpecTrends == InitTrends /\ [][NextTrends]_vars

(***************************************************************************)
(* Trend runs over seeded posts, without further ingestion.                *)
(***************************************************************************)
SeededTables == {EnsurePostsTable(NoTables), create_all(NoTables)}

InitSeeded(submissions, entries) ==
    /\ now = 0
    /\ hashseed = 0
    /\ tables \in SeededTables
    /\ posts = ingest_feed(ingest_subreddit(EmptyBag, tables, submissions, 0),
                           tables, entries, 0, 0)
    /\ saved = PostIds(posts)
    /\ last = [op |-> "start", result |-> "none"]
    /\ trends = EmptyBag
    /\ run = IdleRun
    /\ runs = 0
    /\ alert_history = EmptyBag
    /\ alert_config = NoAlertConfig
    /\ sent = <<>>
    /\ cycles = NoCycles
    /\ reprocess = NoReprocess
    /\ engine = NoEngine
    /\ created = 0
    /\ callers = NoCallers

InitHistory == \E entries \in {{}, TrendEntries} : InitSeeded(TrendSubmissions, entries)

NextHistory ==
    \/ InitDatabase
    \/ Tick
    \/ \E wb \in WindowPairs, m \in MinCounts : TrendReadCurrent(wb[1], wb[2], m)
    \/ TrendScoreAndSave

SpecHistory == InitHistory /\ [][NextHistory]_vars

\* Trend runs over seeded posts, some of them failing in save_trends
InitSave == InitSeeded(TrendSubmissions, {})

NextSave ==
    \/ Tick
    \/ TrendReadCurrent(2, 1, 1)
    \/ TrendScoreAndSave
    \/ TrendScoreAndSaveRaises

SpecSave == InitSave /\ [][NextSave]_vars

\* Trend runs whose current window is not longer than the baseline window,
\* over posts that nothing writes
NestedPairs == {<<1, 2>>, <<2, 2>>}

InitWindows == InitSeeded(WindowSubmissions, {})

NextWindows ==
    \/ Tick
    \/ \E wb \in NestedPairs, m \in MinCounts : TrendReadCurrent(wb[1], wb[2], m)
    \/ TrendScoreAndSave

SpecWindows == InitWindows /\ [][NextWindows]_vars

\* One batch, into an empty posts table or into one that holds the posts
\* of an earlier batch
InitBatch ==
    /\ \E submissions \in {{}, TrendSubmissions} : InitSeeded(submissions, {})
    /\ tables.posts = "sql"

NextBatch ==
    \/ \E listing \in Listings(BatchSubmissions) : IngestSubredditBatch(listing)
    \/ \E listing \in Listings(BatchEntries) : IngestFeedBatch(listing)

SpecBatch == InitBatch /\ [][NextBatch]_vars

(***************************************************************************)
(* pipeline/backfill_seed.py run_data_ingestion: the Reddit adapter and    *)
(* then the RSS adapter.  A credential is TRUE when its environment        *)
(* variable is set to a non-empty string; test is what the connection test *)
(* self.reddit.user.me() of _initialize_reddit does.                       *)
(***************************************************************************)
Credentials == [client_id : BOOLEAN, client_secret : BOOLEAN, user_agent : BOOLEAN]

ConnectionTests == {"ok", "raises"}

\* REDDIT_USER_AGENT has the default "social-rag-trends/1.0"
DefaultUserAgent == TRUE

\* RedditIngester._initialize_reddit: TRUE when self.reddit is a client
initialize_reddit(credentials, test) ==
    LET user_agent == IF credentials.user_agent THEN TRUE ELSE DefaultUserAgent
    IN  IF ~credentials.client_id \/ ~credentials.client_secret THEN FALSE
        ELSE user_agent /\ test = "ok"

NoFailure(listing) == [i \in 1..Len(listing) |-> [record |-> listing[i], raises |-> "none"]]

RunDataIngestion(credentials, test, submissions, entries) ==
    LET reddit == initialize_reddit(credentials, test)
        sub_nps == [i \in 1..Len(submissions) |-> ProcessedSubmission(submissions[i])]
        after_reddit ==
            IF reddit
            THEN IngestLoop(posts, tables, NoFailure(submissions), sub_nps, now)
            ELSE [posts |-> posts, tables |-> tables, ingested_count |-> 0]
        entry_nps == [i \in 1..Len(entries) |-> ProcessedEntry(entries[i], now, hashseed)]
        after_rss == IngestLoop(after_reddit.posts, after_reddit.tables,
                                NoFailure(entries), entry_nps, now)
    IN  /\ last.op = "start"
        /\ posts' = after_rss.posts
        /\ tables' = after_rss.tables
        /\ saved' = PostIds(after_rss.posts)
        /\ last' = [op |-> "run_data_ingestion", result |-> "returned",
                    reddit_posts |-> after_reddit.ingested_count,
                    rss_entries |-> after_rss.ingested_count,
                    credentials |-> credentials, before |-> posts]
        /\ UNCHANGED <<now, hashseed, trendVars, alertVars, procVars>>

SeqsUpTo(records, n) == UNION {[1..k -> records] : k \in 1..n}

NextCycle ==
    \E credentials \in Credentials, test \in ConnectionTests,
       submissions \in SeqsUpTo(BatchSubmissions, MaxBatch - 1),
       entries \in SeqsUpTo(BatchEntries, MaxBatch - 1) :
        RunDataIngestion(credentials, test, submissions, entries)

SpecCycle == InitBatch /\ [][NextCycle]_vars

DefaultWindowHours == 24
DefaultBaselineHours == 168
SeedMinCount == 5

InitScenario ==
    \E a \in AlphaAges, b \in BetaAges :
        InitSeeded(AlphaListing(a) \cup BetaListing(b), {})

NextScenario ==
    \/ InitDatabase
    \/ Tick
    \/ TrendReadCurrent(DefaultWindowHours, DefaultBaselineHours, SeedMinCount)
    \/ TrendScoreAndSave

SpecScenario == InitScenario /\ [][NextScenario]_vars

(***************************************************************************)
(* Alerts: the alert_history table of the Alerts page and check_for_alerts *)
(* of the refresh script.  The message column is left out.                 *)
(***************************************************************************)
MaxAlerts == 2

RealOf(q) == Real(q, Rat(1, 1))
RealGE(x, q) == ~RealLess(x, RealOf(q))

\* The instances of the rows of a table, in every order that is descending
\* by trend_score (ORDER BY trend_score DESC; ties in any order)
Instances(table) == UNION {{<<r, i>> : i \in 1..table[r]} : r \in DOMAIN table}

RECURSIVE ScoreOrders(_)
ScoreOrders(S) ==
    IF S = {} THEN {<<>>}
    ELSE UNION {{<<x>> \o f : f \in ScoreOrders(S \ {x})} :
                   x \in {y \in S : \A z \in S :
                             ~RealLess(y[1].trend_score, z[1].trend_score)}}

OrderedByScore(table) == ScoreOrders(Instances(table))

Limit(f, n) == SubSeq(f, 1, Min(Len(f), n))

\* CREATE TABLE IF NOT EXISTS alert_history of load_alert_history
EnsureAlertTable(tb) ==
    IF tb.alert_history = "absent" THEN [tb EXCEPT !.alert_history = "sql"] ELSE tb

\* created_at and status of a row inserted without them: DEFAULT
\* CURRENT_TIMESTAMP and DEFAULT 'active' in the table of
\* load_alert_history, no server default in the table that
\* Base.metadata.create_all makes from the AlertHistory model
AlertCreatedDefault(tb, clock) == IF tb.alert_history = "sql" THEN clock ELSE NULL
AlertStatusDefault(tb) == IF tb.alert_history = "sql" THEN "active" ELSE "NULL"

\* The INSERT of create_alert
create_alert(table, tb, entity, alert_type, threshold_value, actual_value, clock) ==
    InsertRow(table, [entity |-> entity, alert_type |-> alert_type,
                      threshold_value |-> threshold_value,
                      actual_value |-> actual_value,
                      created_at |-> AlertCreatedDefault(tb, clock),
                      status |-> AlertStatusDefault(tb)])

\* Defaults of load_alert_config
TrendThreshold == Rat(2, 1)
GrowthThreshold == Rat(1, 1)
VolumeThreshold == 100
PageLimit == 20

\* The trends listed under Active Monitoring, each with a manual alert
\* button
Monitored(table) ==
    {r \in DOMAIN table :
        \/ RealGE(r.trend_score, TrendThreshold)
        \/ ~RatLess(r.growth_rate, RatMul(GrowthThreshold, Rat(1, 100)))
        \/ r.current_count >= VolumeThreshold}

MonitoredPage(table) ==
    LET shown == [r \in Monitored(table) |-> table[r]]
    IN  UNION {{f[i][1] : i \in 1..Len(Limit(f, PageLimit))} : f \in OrderedByScore(shown)}

SimulatedTopic ==
    <<"s", "i", "m", "u", "l", "a", "t", "e", "d", "_", "v", "i", "r", "a", "l",
      "_", "t", "o", "p", "i", "c">>

\* The page is rendered: load_alert_history hands its CREATE TABLE to
\* Connection.execute as a plain string, which the installed SQLAlchemy
\* executes (1.x) or refuses (2.x); the exception is caught
LoadAlertHistory ==
    /\ \E executed \in BOOLEAN :
          tables' = IF executed THEN EnsureAlertTable(tables) ELSE tables
    /\ UNCHANGED <<now, last, ingestVars, trendVars, alertVars, procVars>>

\* A call of create_alert: the INSERT is a plain string too, and it fails
\* without the table
CreateAlert(entity, alert_type, threshold_value, actual_value) ==
    /\ BagCardinality(alert_history) < MaxAlerts
    /\ \E executed \in BOOLEAN :
          IF executed /\ tables.alert_history # "absent"
          THEN /\ alert_history' = create_alert(alert_history, tables, entity,
                                                alert_type, threshold_value,
                                                actual_value, now)
               /\ last' = [op |-> "create_alert", result |-> "inserted"]
          ELSE /\ UNCHANGED alert_history
               /\ last' = [op |-> "create_alert", result |-> "failed"]
    /\ UNCHANGED <<now, tables, ingestVars, trendVars, alert_config, sent, procVars>>

\* The button Simulate High Trend Alert
SimulateAlert == CreateAlert(SimulatedTopic, "trend_spike", RealOf(Rat(2, 1)),
                             RealOf(Rat(9, 2)))

\* The button Send Alert of a monitored trend
ManualAlert ==
    \E r \in MonitoredPage(trends) :
        CreateAlert(r.entity, "manual", RealOf(TrendThreshold), r.trend_score)

\* The button Mark Resolved of an active alert: UPDATE ... WHERE id = ?
ResolveAlert ==
    /\ \E r \in DOMAIN alert_history, executed \in BOOLEAN :
          /\ r.status = "active"
          /\ alert_history' =
                IF executed
                THEN (alert_history (-) SetToBag({r}))
                     (+) SetToBag({[r EXCEPT !.status = "resolved"]})
                ELSE alert_history
    /\ UNCHANGED <<now, tables, last, ingestVars, trendVars, alert_config, sent, procVars>>

\* The button Save Alert Configuration writes data/alert_config.json
SaveAlertConfig(enabled) ==
    /\ alert_config' = [present |-> TRUE, enabled |-> enabled]
    /\ UNCHANGED <<now, tables, last, ingestVars, trendVars, alert_history, sent, procVars>>

AlertLimit == 10
ViralScore == Rat(3, 1)
HighScore == Rat(5, 2)

\* SELECT * FROM trends WHERE trend_score >= threshold
\*   AND datetime(created_at) > datetime('now', '-1 hour')
HighTrends(table, clock, threshold) ==
    LET high == {r \in DOMAIN table : /\ RealGE(r.trend_score, threshold)
                                      /\ r.created_at > clock - TicksPerHour}
    IN  [r \in high |-> table[r]]

AlertType(score) ==
    IF RealGE(score, ViralScore) THEN "viral_content"
    ELSE IF RealGE(score, HighScore) THEN "high_trend"
    ELSE "moderate_trend"

(***************************************************************************)
(* alerts/notifier.py.  What a dispatch meets is an outcome: raised (the   *)
(* call ends in an exception before a sink is reached), and for each sink  *)
(* whether its send returns True (a send that is not configured, is        *)
(* refused or fails returns False; send_email and send_webhook catch       *)
(* every exception).  A call that raised reached no sink.                  *)
(***************************************************************************)
Outcomes ==
    {[raised |-> TRUE, email |-> FALSE, webhook |-> FALSE]}
        \cup [raised : {FALSE}, email : BOOLEAN, webhook : BOOLEAN]

\* Email configured and working, no webhook URL
EmailOnly == {[raised |-> FALSE, email |-> TRUE, webhook |-> FALSE]}

\* Mutant: a failed email ends the dispatch, the webhook is not tried
send_trend_alert_FirstSink(o) ==
    IF o.raised THEN [attempted |-> <<>>, returned |-> "raised"]
    ELSE IF ~o.email THEN [attempted |-> <<"email">>, returned |-> "False"]
    ELSE [attempted |-> <<"email", "webhook">>, returned |-> "True"]

\* AlertNotifier.send_trend_alert: the sinks it called, in order, and what
\* it returned
send_trend_alert(o) ==
    IF o.raised THEN [attempted |-> <<>>, returned |-> "raised"]
    ELSE LET success1 == o.email
             success2 == IF o.webhook THEN TRUE ELSE success1
         IN  [attempted |-> <<"email", "webhook">>,
              returned |-> IF success2 THEN "True" ELSE "False"]

\* The loop over high_trends.iterrows(): one send_trend_alert per row; an
\* exception of one call is caught and the loop goes on
RECURSIVE Notifications(_, _)
Notifications(rows, outcomes) ==
    IF rows = <<>> THEN <<>>
    ELSE LET sending == send_trend_alert(Head(outcomes))
         IN  <<[entity |-> Head(rows)[1].entity,
                platform |-> Head(rows)[1].platform,
                alert_type |-> AlertType(Head(rows)[1].trend_score),
                outcome |-> Head(outcomes),
                attempted |-> sending.attempted,
                returned |-> sending.returned]>>
             \o Notifications(Tail(rows), Tail(outcomes))

\* alert_results['alerts_sent'] and alert_results['alert_failures'] of a
\* pass whose notifications are q
AlertsSent(q) == Cardinality({i \in 1..Len(q) : q[i].returned = "True"})
AlertFailures(q) == Cardinality({i \in 1..Len(q) : q[i].returned # "True"})

\* Mutant: a missing configuration file enables the alerts
AlertsEnabled_DefaultOn(config) == ~config.present \/ config.enabled

\* alert_config.get('enabled', False), alert_config being {'enabled': False}
\* when data/alert_config.json does not exist
AlertsEnabled(config) == config.present /\ config.enabled

\* check_for_alerts in an environment whose dispatches meet the outcomes
\* of env: nothing is written to alert_history
CheckForAlerts(threshold, env) ==
    /\ IF tables.trends = "absent" \/ DOMAIN HighTrends(trends, now, threshold) = {}
       THEN /\ sent' = <<>>
            /\ last' = [op |-> "check_for_alerts", result |-> "none"]
       ELSE IF ~AlertsEnabled(alert_config)
       THEN /\ sent' = <<>>
            /\ last' = [op |-> "check_for_alerts", result |-> "disabled"]
       ELSE \E f \in OrderedByScore(HighTrends(trends, now, threshold)) :
              \E outcomes \in [1..Len(Limit(f, AlertLimit)) -> env] :
                /\ sent' = Notifications(Limit(f, AlertLimit), outcomes)
                /\ last' = [op |-> "check_for_alerts", result |-> "notified"]
    /\ UNCHANGED <<now, tables, ingestVars, trendVars, alert_history, alert_config, procVars>>

InitAlerts == InitSeeded(TrendSubmissions, {})

NextAlerts ==
    \/ InitDatabase
    \/ Tick
    \/ \E m \in MinCounts : runs = 0 /\ TrendReadCurrent(2, 1, m)
    \/ TrendScoreAndSave
    \/ LoadAlertHistory
    \/ SimulateAlert
    \/ ManualAlert
    \/ ResolveAlert
    \/ \E enabled \in BOOLEAN : SaveAlertConfig(enabled)
    \/ CheckForAlerts(TrendThreshold, EmailOnly)

SpecAlerts == InitAlerts /\ [][NextAlerts]_vars

\* Alert passes after one or several trend runs
NextRepeat ==
    \/ Tick
    \/ \E m \in MinCounts : TrendReadCurrent(2, 1, m)
    \/ TrendScoreAndSave
    \/ \E enabled \in BOOLEAN : SaveAlertConfig(enabled)
    \/ CheckForAlerts(TrendThreshold, EmailOnly)

SpecRepeat == InitAlerts /\ [][NextRepeat]_vars

(***************************************************************************)
(* Maintenance: cleanup_old_data of database/schema.py and                 *)
(* cleanup_old_trends of scripts/refresh_trends.py.                        *)
(***************************************************************************)
MaxDays == 3
TicksPerDay == HoursPerDay * TicksPerHour
DaysToKeep == {1}

\* datetime(created_at) < datetime('now', '-days days'); NULL compares as
\* not true
OlderThan(created_at, clock, days) ==
    created_at # NULL /\ created_at < clock - days * TicksPerDay

\* DELETE FROM trends WHERE created_at is older than days
DeleteOldTrends(table, clock, days) ==
    [r \in {x \in DOMAIN table : ~OlderThan(x.created_at, clock, days)} |-> table[r]]

\* DELETE FROM alert_history WHERE created_at is older than days
\* AND status = 'resolved'
DeleteOldAlerts(table, clock, days) ==
    [r \in {x \in DOMAIN table : ~(/\ OlderThan(x.created_at, clock, days)
                                   /\ x.status = "resolved")} |-> table[r]]

\* cleanup_old_data: both DELETEs in one transaction; a DELETE from a
\* missing table raises, the transaction is rolled back and the exception
\* is raised again
CleanupOldData(days_to_keep) ==
    /\ IF tables.trends = "absent" \/ tables.alert_history = "absent"
       THEN /\ UNCHANGED <<trends, alert_history>>
            /\ last' = [op |-> "cleanup_old_data", result |-> "raised",
                        days_to_keep |-> days_to_keep, clock |-> now]
       ELSE /\ trends' = DeleteOldTrends(trends, now, days_to_keep)
            /\ alert_history' = DeleteOldAlerts(alert_history, now, days_to_keep * 2)
            /\ last' = [op |-> "cleanup_old_data", result |-> "returned",
                        days_to_keep |-> days_to_keep, clock |-> now]
    /\ UNCHANGED <<now, tables, ingestVars, run, runs, alert_config, sent, procVars>>

\* cleanup_old_trends: the DELETE is handed to Connection.execute as a plain
\* string, which the installed SQLAlchemy executes (1.x) or refuses (2.x);
\* every exception is caught
CleanupOldTrends(days_to_keep) ==
    /\ \E executed \in BOOLEAN :
          trends' = IF executed /\ tables.trends # "absent"
                    THEN DeleteOldTrends(trends, now, days_to_keep)
                    ELSE trends
    /\ last' = [op |-> "cleanup_old_trends", result |-> "returned"]
    /\ UNCHANGED <<now, tables, ingestVars, run, runs, alertVars, procVars>>

\* A day passes
DayPasses ==
    /\ now < MaxDays * TicksPerDay
    /\ now' = now + TicksPerDay
    /\ UNCHANGED <<tables, last, ingestVars, trendVars, alertVars, procVars>>

NextCleanup ==
    \/ InitDatabase
    \/ LoadAlertHistory
    \/ runs = 0 /\ TrendReadCurrent(2, 1, 1)
    \/ TrendScoreAndSave
    \/ ManualAlert
    \/ ResolveAlert
    \/ DayPasses
    \/ \E days_to_keep \in DaysToKeep : CleanupOldData(days_to_keep)
    \/ \E days_to_keep \in DaysToKeep : CleanupOldTrends(days_to_keep)

SpecCleanup == InitAlerts /\ [][NextCleanup]_vars

(***************************************************************************)
(* scripts/reprocess_entities.py main: UPDATE posts SET entities = the     *)
(* joined extract_entities(text) WHERE id = the id, for every row read.    *)
(***************************************************************************)
UpdateEntities(row) == [row EXCEPT !.entities = JoinComma(extract_entities(row.text))]

RECURSIVE UpdateAll(_, _)
UpdateAll(table, ids) ==
    IF ids = {} THEN table
    ELSE LET id == CHOOSE x \in ids : TRUE
             hit == {r \in DOMAIN table : r.id = id}
             others == [r \in DOMAIN table \ hit |-> table[r]]
         IN  UpdateAll(others (+) SetToBag({UpdateEntities(r) : r \in hit}), ids \ {id})

\* The SELECT raises when posts does not exist
ReprocessEntities ==
    /\ IF tables.posts = "absent"
       THEN /\ UNCHANGED posts
            /\ last' = [op |-> "reprocess_entities", result |-> "raised"]
       ELSE /\ posts' = UpdateAll(posts, PostIds(posts))
            /\ last' = [op |-> "reprocess_entities", result |-> "updated"]
    /\ UNCHANGED <<now, tables, hashseed, saved, trendVars, alertVars, procVars>>

\* Everything the core does to posts: ingestion and re-ingestion, trend
\* runs, cleanup and reprocessing
NextPosts ==
    \/ \E submission \in Submissions : IngestSubmission(submission)
    \/ \E entry \in Entries : IngestEntry(entry)
    \/ InitDatabase
    \/ Tick
    \/ runs = 0 /\ TrendReadCurrent(2, 1, 1)
    \/ TrendScoreAndSave
    \/ \E days_to_keep \in DaysToKeep : CleanupOldData(days_to_keep)
    \/ ReprocessEntities

\* One process: one string-hash seed
InitOneProcess == InitIngest /\ hashseed = 0

SpecPosts == InitOneProcess /\ [][NextPosts]_vars

\* The script step by step.  SELECT id, text FROM posts and fetchall(): the
\* connection is closed before the first UPDATE; the SELECT raises when
\* posts does not exist
ReprocessRead ==
    /\ reprocess.pc = "idle"
    /\ IF tables.posts = "absent"
       THEN /\ UNCHANGED reprocess
            /\ last' = [op |-> "reprocess_entities", result |-> "raised"]
       ELSE /\ reprocess' = [pc |-> "updating",
                             rows |-> {<<r.id, r.text>> : r \in Rows(posts)}]
            /\ last' = [op |-> "reprocess_entities", result |-> "read"]
    /\ UNCHANGED <<now, tables, ingestVars, trendVars, alertVars, cycles, engineVars>>

\* UPDATE posts SET entities = :entities WHERE id = :id, the entities
\* extracted from the text that was fetched
RECURSIVE UpdateFetched(_, _)
UpdateFetched(table, rows) ==
    IF rows = {} THEN table
    ELSE LET row == CHOOSE x \in rows : TRUE
             hit == {r \in DOMAIN table : r.id = row[1]}
             others == [r \in DOMAIN table \ hit |-> table[r]]
             entities == JoinComma(extract_entities(row[2]))
         IN  UpdateFetched(others (+) SetToBag({[r EXCEPT !.entities = entities] :
                                                   r \in hit}),
                           rows \ {row})

\* The loop over the batches: the rows fetched fit into one batch, whose
\* updates are one transaction
ReprocessUpdate ==
    /\ reprocess.pc = "updating"
    /\ posts' = UpdateFetched(posts, reprocess.rows)
    /\ reprocess' = NoReprocess
    /\ last' = [op |-> "reprocess_entities", result |-> "updated"]
    /\ UNCHANGED <<now, tables, hashseed, saved, trendVars, alertVars, cycles,
                   engineVars>>

\* Ingestion and re-ingestion while the script runs
NextReprocess ==
    \/ \E submission \in EditedSubmissions : IngestSubmission(submission)
    \/ \E entry \in Entries : IngestEntry(entry)
    \/ InitDatabase
    \/ Tick
    \/ ReprocessRead
    \/ ReprocessUpdate

SpecReprocess == InitOneProcess /\ [][NextReprocess]_vars

(***************************************************************************)
(* The pure functions, applied to texts put together from a few pieces.    *)
(***************************************************************************)
MaxPieces == 3

RECURSIVE Flatten(_)
Flatten(pieces) == IF pieces = <<>> THEN <<>> ELSE Head(pieces) \o Flatten(Tail(pieces))

TextsOf(pieces) == {Flatten(f) : f \in UNION {[1..n -> pieces] : n \in 1..MaxPieces}}

CleanPieces == {<<" ">>, <<"a">>, <<"!">>, <<".">>, Deleted}

\* clean_text(text)
CleanText(text) ==
    /\ last.op = "start"
    /\ last' = [op |-> "clean_text", text |-> text, result |-> clean_text(text)]
    /\ UNCHANGED <<now, tables, ingestVars, trendVars, alertVars, procVars>>

\* clean_text(clean_text(text))
CleanTextAgain ==
    /\ last.op = "clean_text"
    /\ last' = [op |-> "clean_text_twice", text |-> last.text, once |-> last.result,
                result |-> clean_text(last.result)]
    /\ UNCHANGED <<now, tables, ingestVars, trendVars, alertVars, procVars>>

NextClean ==
    \/ \E text \in TextsOf(CleanPieces) : CleanText(text)
    \/ CleanTextAgain

SpecClean == InitOneProcess /\ [][NextClean]_vars

EntityPieces ==
    {<<" ">>, <<"#", "n", "b", "a">>, <<"#", "a", "b", "c">>, <<"@", "b", "o", "b">>,
     <<"m", "e", "t", "a">>}

\* The orders in which a set of strings can be iterated: it depends on the
\* string-hash seed of the process
IterationOrders(S) == {f \in [1..Cardinality(S) -> S] : \A x \in S : \E i \in DOMAIN f : f[i] = x}

\* extract_entities(text) in one process
ExtractEntities(text) ==
    /\ last.op = "start"
    /\ \E iterated \in IterationOrders(EntitySet(text)) :
          last' = [op |-> "extract_entities", text |-> text,
                   result |-> extract_entities_iterated(text, iterated)]
    /\ UNCHANGED <<now, tables, ingestVars, trendVars, alertVars, procVars>>

\* extract_entities of the same text in another process
ExtractEntitiesAgain ==
    /\ last.op = "extract_entities"
    /\ \E iterated \in IterationOrders(EntitySet(last.text)) :
          last' = [op |-> "extract_entities_twice", text |-> last.text,
                   first |-> last.result,
                   result |-> extract_entities_iterated(last.text, iterated)]
    /\ UNCHANGED <<now, tables, ingestVars, trendVars, alertVars, procVars>>

NextEntities ==
    \/ \E text \in TextsOf(EntityPieces) : ExtractEntities(text)
    \/ ExtractEntitiesAgain

SpecEntities == InitOneProcess /\ [][NextEntities]_vars

(***************************************************************************)
(* The scoring loop of calculate_trend_scores on a merged frame of one     *)
(* platform group.                                                         *)
(***************************************************************************)
MaxCount == 7
MaxBaseline == 2

\* Merged frames of two entities on one platform, after the minimum-count
\* filter
MergedFrames ==
    {<<[entity |-> <<"a">>, platform |-> "reddit", current_count |-> c[1],
        baseline_count |-> b[1]],
       [entity |-> <<"b">>, platform |-> "reddit", current_count |-> c[2],
        baseline_count |-> b[2]]>> :
        c \in (1..MaxCount) \X (1..MaxCount),
        b \in (0..MaxBaseline) \X (0..MaxBaseline)}

\* The loops over merged['platform'].unique() and platform_data.iterrows()
ScoreFrame(merged, window_hours, baseline_hours) ==
    /\ run.pc = "idle"
    /\ last.op = "start"
    /\ run' = [run EXCEPT !.window_hours = window_hours,
                           !.baseline_hours = baseline_hours,
                           !.min_count = 1, !.merged = merged,
                           !.frame = Results(merged, window_hours, baseline_hours)]
    /\ last' = [op |-> "calculate_trend_scores", result |-> "scored"]
    /\ UNCHANGED <<now, tables, trends, runs, ingestVars, alertVars, procVars>>

NextScore ==
    \E merged \in MergedFrames, wb \in WindowPairs : ScoreFrame(merged, wb[1], wb[2])

SpecScore == InitOneProcess /\ [][NextScore]_vars

(***************************************************************************)
(* app.py main: the buttons Run Data Ingestion and Refresh Trends.  Every  *)
(* session runs the script in a thread of its own; a click runs the cycle  *)
(* in that thread, and nothing in the handler looks at the other sessions. *)
(***************************************************************************)

\* A click in session s: the handler starts the cycle
StartCycle(s) ==
    /\ cycles[s] = "idle"
    /\ cycles' = [cycles EXCEPT ![s] = "running"]
    /\ UNCHANGED <<now, tables, last, ingestVars, trendVars, alertVars, reprocess,
                   engineVars>>

\* The cycle of a session saves a record
CycleIngestSubmission(submission) ==
    /\ \E s \in Sessions : cycles[s] = "running"
    /\ IngestSubmission(submission)

CycleIngestEntry(entry) ==
    /\ \E s \in Sessions : cycles[s] = "running"
    /\ IngestEntry(entry)

\* The handler of session s returns
FinishCycle(s) ==
    /\ cycles[s] = "running"
    /\ cycles' = [cycles EXCEPT ![s] = "idle"]
    /\ UNCHANGED <<now, tables, last, ingestVars, trendVars, alertVars, reprocess,
                   engineVars>>

NextCycles ==
    \/ \E s \in Sessions : StartCycle(s)
    \/ \E submission \in Submissions : CycleIngestSubmission(submission)
    \/ \E entry \in Entries : CycleIngestEntry(entry)
    \/ \E s \in Sessions : FinishCycle(s)
    \/ Tick

SpecCycles == InitOneProcess /\ [][NextCycles]_vars

\* refresh_trends.py main: the trend run and then the alert pass, against
\* sinks that work, fail or are not configured
NextNotify ==
    \/ \E m \in MinCounts : runs = 0 /\ TrendReadCurrent(2, 1, m)
    \/ TrendScoreAndSave
    \/ \E enabled \in BOOLEAN : SaveAlertConfig(enabled)
    \/ CheckForAlerts(TrendThreshold, Outcomes)

SpecNotify == InitAlerts /\ [][NextNotify]_vars

(***************************************************************************)
(* database/schema.py get_engine, called by the threads of one process:    *)
(* the test of _engine, the creation and the return are separate steps.    *)
(***************************************************************************)
\* if _engine is None
GetEngineTest(t) ==
    /\ callers[t].pc = "idle"
    /\ callers' = [callers EXCEPT ![t].pc = IF engine = NoEngine THEN "creating"
                                            ELSE "returning"]
    /\ UNCHANGED <<now, tables, last, ingestVars, trendVars, alertVars, cycles,
                   reprocess, engine, created>>

\* _engine = create_engine(...)
GetEngineCreate(t) ==
    /\ callers[t].pc = "creating"
    /\ created' = created + 1
    /\ engine' = created + 1
    /\ callers' = [callers EXCEPT ![t].pc = "returning"]
    /\ UNCHANGED <<now, tables, last, ingestVars, trendVars, alertVars, cycles,
                   reprocess>>

\* return _engine
GetEngineReturn(t) ==
    /\ callers[t].pc = "returning"
    /\ callers' = [callers EXCEPT ![t] = [pc |-> "done", returned |-> engine]]
    /\ UNCHANGED <<now, tables, last, ingestVars, trendVars, alertVars, cycles,
                   reprocess, engine, created>>

\* The ingesters of a thread work on the engine their constructor got
EngineIngestSubmission(submission) ==
    /\ \E t \in Threads : callers[t].pc = "done"
    /\ IngestSubmission(submission)

EngineIngestEntry(entry) ==
    /\ \E t \in Threads : callers[t].pc = "done"
    /\ IngestEntry(entry)

NextEngine ==
    \/ \E t \in Threads : GetEngineTest(t)
    \/ \E t \in Threads : GetEngineCreate(t)
    \/ \E t \in Threads : GetEngineReturn(t)
    \/ \E submission \in Submissions : EngineIngestSubmission(submission)
    \/ \E entry \in Entries : EngineIngestEntry(entry)
    \/ Tick

SpecEngine == InitOneProcess /\ [][NextEngine]_vars

(***************************************************************************)
(* Claims about ingestion (checked under SpecIngest).                      *)
(***************************************************************************)

\* C1: posts holds at most one row per post id, and as many rows as there
\* are distinct ids ever handed to save_post; a save of an existing id
\* replaces the row.
C1_OneRowPerId ==
    /\ \A r \in Rows(posts) : posts[r] = 1
    /\ \A r1, r2 \in Rows(posts) : r1.id = r2.id => r1 = r2
    /\ BagCardinality(posts) = Cardinality(saved)

\* A save has just replaced a row while another row was present
C1_Witness ==
    /\ last.result = "replaced"
    /\ BagCardinality(posts) >= 2

\* C2: every ingestion of one RSS entry derives the same post id, so the
\* rows made from one entry never number more than one.
C2_SameEntrySameId ==
    \A r1, r2 \in Rows(posts) :
        (r1.platform = "rss" /\ r2.platform = "rss" /\ r1.src = r2.src)
            => r1.id = r2.id

\* C4: no post with a stored text shorter than 10 characters is persisted.
C4_NoShortText ==
    \A r \in Rows(posts) : Len(r.text) >= MinTextLen

(***************************************************************************)
(* Claims about trend runs (checked under SpecTrends, SpecHistory and      *)
(* SpecScenario).                                                          *)
(***************************************************************************)
Alpha == <<"a", "l", "p", "h", "a">>

\* The rows of one platform group of a scored frame
FrameGroup(frame, platform) ==
    {frame[i] : i \in {j \in 1..Len(frame) : frame[j].platform = platform}}

\* k * (sum of squares) - (sum)^2 of the baseline counts of a group of k
\* rows: zero exactly when their standard deviation is zero
GroupSpread(G) ==
    Cardinality(G) * SumOf([r \in G |-> r.baseline_count * r.baseline_count], G)
    - SumOf([r \in G |-> r.baseline_count], G) * SumOf([r \in G |-> r.baseline_count], G)

\* C5: every growth_rate stored in trends is finite, and a row with
\* baseline_count = 0 and current_count > 0 is stored with 999.0.
C5_GrowthFinite ==
    \A r \in Rows(trends) :
        /\ r.growth_rate.d # 0
        /\ (r.baseline_count = 0 /\ r.current_count > 0)
               => r.growth_rate = Rat(GrowthSentinel, 1)

\* The latest run scored a row with an infinite growth_rate and persisted it
C5_Witness ==
    /\ last = [op |-> "trend_run", result |-> "saved"]
    /\ \E i \in 1..Len(run.frame) :
          /\ IsInf(run.frame[i].growth_rate)
          /\ \E r \in Rows(trends) :
                /\ r.run = runs
                /\ r.entity = run.frame[i].entity
                /\ r.platform = run.frame[i].platform
                /\ r.baseline_count = 0
                /\ r.growth_rate = Rat(GrowthSentinel, 1)

\* C6: every row persisted by a trend run has current_count >= the
\* min_count of that run, and a pair counted below min_count in the current
\* window is not in the run's output.
C6_MinCount ==
    /\ \A r \in Rows(trends) : r.current_count >= r.min_count
    /\ \A i \in 1..Len(run.frame) :
          /\ run.frame[i].current_count >= run.min_count
          /\ run.frame[i].current_count
                 = GroupCount(run.current_df,
                              <<run.frame[i].entity, run.frame[i].platform>>)

\* The latest run persisted rows and dropped a pair counted below min_count
C6_Witness ==
    /\ last = [op |-> "trend_run", result |-> "saved"]
    /\ \E r \in Rows(trends) : r.run = runs
    /\ \E p \in Pairs(run.current_df) :
          GroupCount(run.current_df, p) < run.min_count

\* C7: in every platform group of a scored frame, z_score is
\* (current_count - baseline_mean) / baseline_std with the mean and the
\* sample standard deviation of the group's baseline_count values, the
\* deviation replaced by 1 when it is 0; nothing is divided by zero.
C7_ZScore ==
    \A i \in 1..Len(run.frame) :
        LET row == run.frame[i]
            G == FrameGroup(run.frame, row.platform)
            k == Cardinality(G)
            S == SumOf([r \in G |-> r.baseline_count], G)
            vn == IF GroupSpread(G) = 0 THEN 1 ELSE GroupSpread(G)
            vd == IF GroupSpread(G) = 0 THEN 1 ELSE k * (k - 1)
            z == row.z_score
            num == row.current_count * k - S
        IN  /\ k > 1
            /\ z.d > 0 /\ z.rn > 0 /\ z.rd > 0
            /\ Sign(z.n) = Sign(num)
            /\ z.n * z.n * z.rd * k * k * vn = num * num * vd * z.d * z.d * z.rn

\* A scored group whose baseline counts are all equal (deviation 0,
\* replaced by 1) holds a row with a nonzero z_score
C7_Witness ==
    /\ last = [op |-> "trend_run", result |-> "saved"]
    /\ \E i \in 1..Len(run.frame) :
          /\ GroupSpread(FrameGroup(run.frame, run.frame[i].platform)) = 0
          /\ run.frame[i].z_score.n # 0

\* A scored group with a nonzero deviation holds a row with a nonzero z_score
C7_WitnessSpread ==
    /\ last = [op |-> "trend_run", result |-> "saved"]
    /\ \E i \in 1..Len(run.frame) :
          /\ GroupSpread(FrameGroup(run.frame, run.frame[i].platform)) # 0
          /\ run.frame[i].z_score.n # 0

\* C8 as stated: after a trend run of the scenario, trends holds exactly
\* one row for alpha, with current_count = baseline_count = 20 and a
\* positive z_score.
C8_AlphaRowPersisted ==
    last.op = "trend_run" =>
        /\ \E r \in Rows(trends) : r.entity = Alpha
        /\ \A r \in Rows(trends) :
              r.entity = Alpha =>
                  /\ trends[r] = 1
                  /\ r.current_count = ScenarioAlphaPosts
                  /\ r.baseline_count = ScenarioAlphaPosts
                  /\ r.z_score.n > 0

\* C8 amended: the run counts alpha ScenarioAlphaPosts times in both
\* windows, alpha is the only row of its platform group, the group is
\* skipped and no trends row is persisted.
C8_SingleRowGroupSkipped ==
    (last.op = "trend_run" /\ run.pc = "idle") =>
        /\ last.result = "empty"
        /\ trends = EmptyBag
        /\ run.frame = <<>>
        /\ run.merged = <<[entity |-> Alpha, platform |-> "reddit",
                           current_count |-> ScenarioAlphaPosts,
                           baseline_count |-> ScenarioAlphaPosts]>>

\* A run of the scenario has ended with alpha alone in the merged frame
C8_Witness ==
    /\ last = [op |-> "trend_run", result |-> "empty"]
    /\ runs > 0
    /\ Len(run.merged) = 1
    /\ run.merged[1].entity = Alpha
    /\ run.merged[1].current_count = ScenarioAlphaPosts
    /\ \E r \in Rows(posts) : ~InWindow(r, now, DefaultWindowHours)

\* C9: the rows persisted by one run carry one created_at, and the rows of
\* a later run are strictly newer than the rows of an earlier run.
C9_RunTimestamps ==
    \A r1, r2 \in Rows(trends) :
        /\ r1.run = r2.run => r1.created_at = r2.created_at
        /\ r1.run < r2.run => r1.created_at < r2.created_at

\* No two rows of a trends table share (entity, platform, created_at)
UniqueTrendKeys(table) ==
    \A r1, r2 \in Rows(table) :
        /\ table[r1] = 1
        /\ (r1.entity = r2.entity /\ r1.platform = r2.platform
            /\ r1.created_at = r2.created_at) => r1 = r2

\* C10: no two trends rows share (entity, platform, created_at), and every
\* step leaves the rows persisted before it present and unchanged.
C10_UniqueAndPreserved ==
    [][/\ UniqueTrendKeys(trends')
       /\ \A r \in Rows(trends) : r \in Rows(trends') /\ trends'[r] >= trends[r]]_vars

(***************************************************************************)
(* Claims about alerts (checked under SpecAlerts).                         *)
(***************************************************************************)

\* C3: no two active alerts for one (entity, kind) are less than one hour
\* (the cooldown) apart, and after an alert check that processed qualifying
\* trends exactly one alert row exists for each of their entities.
C3_AlertDedup ==
    /\ \A a1, a2 \in Rows(alert_history) :
          (a1.status = "active" /\ a2.status = "active"
           /\ a1.entity = a2.entity /\ a1.alert_type = a2.alert_type)
              => /\ alert_history[a1] = 1
                 /\ a1 # a2 => Abs(a1.created_at - a2.created_at) >= TicksPerHour
    /\ last = [op |-> "check_for_alerts", result |-> "notified"] =>
          \A i \in 1..Len(sent) :
              SumOf(alert_history,
                    {a \in Rows(alert_history) : a.entity = sent[i].entity}) = 1

\* C11: after an alert pass with alerts enabled, every trend row of the
\* last hour with trend_score >= trend_threshold or growth_rate >=
\* growth_threshold or current_count >= volume_threshold has produced an
\* alert, also a row that meets the growth or the volume condition only.
C11_AnyThresholdAlerts ==
    (/\ last.op = "check_for_alerts"
     /\ last.result \in {"none", "notified"}
     /\ alert_config.present /\ alert_config.enabled)
        => \A r \in Rows(trends) :
              (/\ r.created_at > now - TicksPerHour
               /\ \/ RealGE(r.trend_score, TrendThreshold)
                  \/ ~RatLess(r.growth_rate, GrowthThreshold)
                  \/ r.current_count >= VolumeThreshold)
                  => \E i \in 1..Len(sent) :
                        /\ sent[i].entity = r.entity
                        /\ sent[i].platform = r.platform

\* C12: after an alert pass, every trend whose payload was handed to a sink
\* has an alert row in alert_history: a notification is dispatched only
\* after its alert row has been inserted.
C12_DispatchedHasAlertRow ==
    (last.op = "check_for_alerts" /\ last.result = "notified")
        => \A i \in 1..Len(sent) :
              sent[i].attempted # <<>>
                  => \E a \in Rows(alert_history) : a.entity = sent[i].entity

(***************************************************************************)
(* Claims about the dispatch of notifications (checked under SpecNotify).  *)
(***************************************************************************)

\* C13: in a finished alert pass there is one dispatch for every one of the
\* (at most AlertLimit) high trends, whatever happened to the dispatches
\* before it; every dispatch that did not raise tried the email and then the
\* webhook, whatever the email did; and send_trend_alert returned True
\* exactly when one of the two sinks succeeded.
C13_SinksIndependent ==
    (last.op = "check_for_alerts" /\ last.result = "notified")
        => /\ Len(sent) = Min(AlertLimit,
                              Cardinality(Instances(HighTrends(trends, now,
                                                               TrendThreshold))))
           /\ \A i \in 1..Len(sent) :
                 /\ ~sent[i].outcome.raised
                       => sent[i].attempted = <<"email", "webhook">>
                 /\ sent[i].returned = "True"
                       <=> (/\ ~sent[i].outcome.raised
                            /\ sent[i].outcome.email \/ sent[i].outcome.webhook)
                 /\ sent[i].returned \in {"True", "False", "raised"}
           /\ AlertsSent(sent) + AlertFailures(sent) = Len(sent)

\* A pass whose first dispatch raised, whose second lost the email and
\* delivered the webhook, and whose last lost both
C13_Witness ==
    /\ last.op = "check_for_alerts" /\ last.result = "notified"
    /\ Len(sent) >= 3
    /\ sent[1].returned = "raised"
    /\ ~sent[2].outcome.raised /\ ~sent[2].outcome.email /\ sent[2].outcome.webhook
    /\ sent[2].attempted = <<"email", "webhook">>
    /\ sent[2].returned = "True"
    /\ sent[3].attempted = <<"email", "webhook">>
    /\ sent[3].returned = "False"
    /\ AlertsSent(sent) = 1 /\ AlertFailures(sent) = Len(sent) - 1

(***************************************************************************)
(* Claims about batches (checked under SpecBatch).                         *)
(***************************************************************************)
Batch == last.op \in {"ingest_subreddit", "ingest_feed"}

\* The items whose record is long enough, and the items that fail
ValidLength(item) == item.np # None
Failing(item) == item.raises # "none"
Kept == {i \in 1..Len(last.items) :
            ValidLength(last.items[i]) /\ ~Failing(last.items[i])}

AllValidOneFailing ==
    /\ Batch
    /\ \A i \in 1..Len(last.items) : ValidLength(last.items[i])
    /\ Cardinality({i \in 1..Len(last.items) : Failing(last.items[i])}) = 1

\* The records that are kept have ids that differ from each other and from
\* the ids of the posts stored before the batch
FreshIds ==
    /\ \A i, j \in Kept : i # j => last.items[i].np[1].id # last.items[j].np[1].id
    /\ \A i \in Kept : last.items[i].np[1].id \notin PostIds(last.before)

RedditIds(table) == {r.id : r \in {x \in Rows(table) : x.platform = "reddit"}}

\* C15: after an ingestion cycle in which the client id, the client secret
\* or the user agent was missing, the Reddit adapter has returned 0 and the
\* Reddit posts are those stored before the cycle, while the RSS adapter
\* has run and the cycle has returned.
C15_MissingCredentialDisables ==
    (/\ last.op = "run_data_ingestion"
     /\ \/ ~last.credentials.client_id
        \/ ~last.credentials.client_secret
        \/ ~last.credentials.user_agent)
        => /\ last.reddit_posts = 0
           /\ RedditIds(posts) = RedditIds(last.before)
           /\ last.rss_entries > 0
           /\ last.result = "returned"

(***************************************************************************)
(* Claims about maintenance (checked under SpecCleanup).                   *)
(***************************************************************************)

\* C16: a step of cleanup_old_data(N) leaves in trends exactly the rows
\* that are not older than N days, in alert_history exactly the rows that
\* are not both resolved and older than 2N days, and leaves posts as it is.
C16_CleanupExact ==
    [][(last'.op = "cleanup_old_data" /\ last' # last)
        => /\ trends' = DeleteOldTrends(trends, now, last'.days_to_keep)
           /\ alert_history' = [r \in {x \in DOMAIN alert_history :
                                         ~(/\ x.status = "resolved"
                                           /\ OlderThan(x.created_at, now,
                                                        2 * last'.days_to_keep))}
                                  |-> alert_history[r]]
           /\ posts' = posts]_vars

(***************************************************************************)
(* Claims about the life of a post (checked under SpecPosts).              *)
(***************************************************************************)
SameButEntities(r1, r2) ==
    /\ r1.id = r2.id
    /\ r1.platform = r2.platform
    /\ r1.text = r2.text
    /\ r1.created_at = r2.created_at
    /\ r1.hashtags = r2.hashtags
    /\ r1.indexed_at = r2.indexed_at

\* C17: no step deletes a post or changes a field of a post other than
\* entities: every row of posts is still there after the step, with the
\* same id, platform, text, created_at, hashtags and indexed_at.
C17_OnlyEntitiesChange ==
    [][\A r1 \in Rows(posts) : \E r2 \in Rows(posts') : SameButEntities(r1, r2)]_vars

(***************************************************************************)
(* Claims about the time stamps of a post (checked under SpecIngest).      *)
(***************************************************************************)

\* C18: every row of posts has an indexed_at, set when the row was
\* written, and its created_at is not later than its indexed_at.
C18_CreatedBeforeIndexed ==
    \A r \in Rows(posts) : r.indexed_at # NULL /\ r.created_at <= r.indexed_at

(***************************************************************************)
(* Claims about clean_text (checked under SpecClean).                      *)
(***************************************************************************)

\* C19: clean_text is idempotent: cleaning a cleaned text gives the cleaned
\* text again.
C19_CleanIdempotent ==
    last.op = "clean_text_twice" => last.result = last.once

(***************************************************************************)
(* Claims about extract_entities (checked under SpecEntities).             *)
(***************************************************************************)
StrictlyAscending(q) == \A i \in 1..(Len(q) - 1) : StrLess(q[i], q[i + 1])

\* C20: two calls of extract_entities on one text return the same list,
\* whatever the order in which each call iterates its set of entities, and
\* the list returned is in strictly ascending order, hence without
\* duplicates.
C20_EntitiesDeterministicSorted ==
    /\ last.op \in {"extract_entities", "extract_entities_twice"}
          => /\ StrictlyAscending(last.result)
             /\ \A i, j \in 1..Len(last.result) :
                   i # j => last.result[i] # last.result[j]
    /\ last.op = "extract_entities_twice" => last.result = last.first

\* Two calls on a text with a mention and three entities in all
C20_Witness ==
    /\ last.op = "extract_entities_twice"
    /\ Len(last.result) = 3
    /\ last.result = last.first
    /\ \E i \in 1..Len(last.text) : last.text[i] = "@"

(***************************************************************************)
(* Claims about concurrent cycles (checked under SpecCycles).              *)
(***************************************************************************)
Running == {s \in Sessions : cycles[s] = "running"}

\* C21: at most one cycle runs at a time: a trigger that arrives while a
\* cycle is running starts no second cycle.
C21_OneCycleAtATime == Cardinality(Running) <= 1

(***************************************************************************)
(* The two scans of a trend run.                                           *)
(***************************************************************************)
\* The current-window frame of the run in progress is the one a scan of the
\* posts now stored yields at some moment: the baseline scan, which reads the
\* posts now stored, then reads the state the current scan read
OneSnapshot ==
    \E clock \in 0..MaxNow :
        run.current_df = get_entity_counts(posts, tables, clock, run.window_hours)

\* C22: a trend run takes its current-window counts and its baseline-window
\* counts from one state of the posts table: at the baseline scan the posts
\* stored are those the current scan counted.
C22_ScansSeeOneState ==
    [][(run.pc = "scoring" /\ run'.pc = "idle") => OneSnapshot]_vars

(***************************************************************************)
(* The composite score.                                                    *)
(***************************************************************************)
\* growth_rate > 1.0, an unbounded growth rate included
HighGrowth(row) ==
    IsInf(row.growth_rate) \/ row.growth_rate.n > row.growth_rate.d

\* 1 + min(growth_rate, 5) as a fraction, 1 without the growth boost
GrowthFactor(row) ==
    IF ~HighGrowth(row) THEN [n |-> 1, d |-> 1]
    ELSE IF IsInf(row.growth_rate) \/ row.growth_rate.n > 5 * row.growth_rate.d
    THEN [n |-> 6, d |-> 1]
    ELSE [n |-> row.growth_rate.d + row.growth_rate.n, d |-> row.growth_rate.d]

\* velocity > baseline_mean / baseline_hours, for the group G of the row
HighVelocity(row, G) ==
    row.current_count * Cardinality(G) * run.baseline_hours
        > SumOf([r \in G |-> r.baseline_count], G) * run.window_hours

\* 1.2 as a fraction, 1 without the velocity boost
VelocityFactor(row, G) ==
    IF HighVelocity(row, G) THEN [n |-> 6, d |-> 5] ELSE [n |-> 1, d |-> 1]

\* C23: the trend_score of a scored row is its z_score, multiplied by
\* 1 + min(growth_rate, 5) exactly when growth_rate > 1, and by 1.2 exactly
\* when velocity = current_count / window_hours exceeds
\* baseline_mean / baseline_hours; a row with both boosts carries both factors.
C23_CompositeScore ==
    \A i \in 1..Len(run.frame) :
        LET row == run.frame[i]
            G == FrameGroup(run.frame, row.platform)
            gf == GrowthFactor(row)
            vf == VelocityFactor(row, G)
            z == row.z_score
            t == row.trend_score
        IN  /\ row.velocity.n * run.window_hours = row.current_count * row.velocity.d
            /\ t.rn = z.rn /\ t.rd = z.rd /\ t.d > 0
            /\ t.n * z.d * gf.d * vf.d = z.n * gf.n * vf.n * t.d

\* A scored frame with a row of nonzero z_score that took both boosts, its
\* growth rate between 1 and the cap, and a row that took the velocity boost
\* alone
C23_Witness ==
    /\ last.op = "calculate_trend_scores"
    /\ \E i, j \in 1..Len(run.frame) :
          LET row == run.frame[i]
              other == run.frame[j]
              G == FrameGroup(run.frame, row.platform)
          IN  /\ row.z_score.n # 0
              /\ HighGrowth(row)
              /\ ~IsInf(row.growth_rate)
              /\ row.growth_rate.n < GrowthCap * row.growth_rate.d
              /\ HighVelocity(row, G)
              /\ other.z_score.n # 0
              /\ ~HighGrowth(other)
              /\ HighVelocity(other, G)

(***************************************************************************)
(* save_trends is one transaction.                                         *)
(***************************************************************************)
\* C24: when an insert of save_trends fails, no row of the run is
\* persisted, the exception leaves save_trends, and the rows the trends
\* table held before are unchanged.
C24_FailedSaveKeepsTrends ==
    [][(run.pc = "scoring" /\ last'.op = "trend_run" /\ last'.result = "raised")
          => trends' = trends]_vars

\* A run whose second or later INSERT raised, over a trends table that held
\* the rows of an earlier run
C24_Witness ==
    /\ last.op = "trend_run"
    /\ last.result = "raised"
    /\ last.fail_at > 1
    /\ runs = 2
    /\ trends # EmptyBag

(***************************************************************************)
(* Disabled alerts.                                                        *)
(***************************************************************************)
\* A step of check_for_alerts under SpecNotify: the other actions change the
\* trend run or the alert configuration
AlertPass == UNCHANGED <<trends, run, runs, alert_config>>

BaselineCovers(row) ==
    /\ row.baseline_count >= row.current_count
    /\ ~IsInf(row.growth_rate)
    /\ row.growth_rate.n <= 0
    /\ ~HighGrowth(row)

\* C26 as stated: in a run with window_hours <= baseline_hours during which
\* nothing is written, every scored row has baseline_count >= current_count
\* and growth_rate <= 0; the growth boost and the stored sentinel of a row
\* with baseline_count = 0 do not occur.
C26_BaselineCoversCurrent ==
    /\ run.window_hours <= run.baseline_hours
          => \A i \in 1..Len(run.frame) : BaselineCovers(run.frame[i])
    /\ \A r \in DOMAIN trends : r.growth_rate # Rat(GrowthSentinel, 1)

\* The posts the current scan counted are still inside window_hours when
\* the baseline scan reads the clock
StillInWindow ==
    run.current_df = get_entity_counts(posts, tables, now, run.window_hours)

\* The rows are covered in the runs in which every post counted by the
\* current scan is still inside the current window when the baseline scan
\* runs: what breaks the cover is the clock read twice
CoversWhenStillInWindow ==
    [][(/\ run.pc = "scoring" /\ run'.pc = "idle"
        /\ run.window_hours <= run.baseline_hours
        /\ StillInWindow)
          => /\ \A i \in 1..Len(run'.frame) : BaselineCovers(run'.frame[i])
             /\ \A r \in DOMAIN trends' :
                    r \notin DOMAIN trends => r.growth_rate # Rat(GrowthSentinel, 1)]_vars

\* A saved run with window_hours < baseline_hours in which a row has a
\* larger baseline_count than current_count
CoveredRun ==
    /\ last = [op |-> "trend_run", result |-> "saved"]
    /\ run.window_hours < run.baseline_hours
    /\ \E i \in 1..Len(run.frame) :
          /\ run.frame[i].baseline_count > run.frame[i].current_count
          /\ BaselineCovers(run.frame[i])

(***************************************************************************)
(* Reprocessing while posts are ingested.                                  *)
(***************************************************************************)
\* The entities column of every post is the joined extract_entities of the
\* text column
EntitiesMatchText(table) ==
    \A r \in Rows(table) : r.entities = JoinComma(extract_entities(r.text))

\* C27: when reprocess_entities has completed, the entities of every post
\* are extract_entities of its stored text, also when an ingestion replaced
\* a post between the read and the updates of the script.
C27_ReprocessedMatchesText ==
    [][(reprocess.pc = "updating" /\ reprocess'.pc = "idle")
          => EntitiesMatchText(posts')]_vars

(***************************************************************************)
(* Alert passes over the rows of several trend runs.                       *)
(***************************************************************************)
\* C28: one pass of check_for_alerts sends at most one notification for a
\* pair of entity and platform, also when several trend runs of the last
\* hour stored a row for it, and at most 10 notifications in all.
C28_OnePerEntity ==
    /\ Len(sent) <= AlertLimit
    /\ \A i, j \in 1..Len(sent) :
          (sent[i].entity = sent[j].entity /\ sent[i].platform = sent[j].platform)
              => i = j

(***************************************************************************)
(* The frame a trend run returns.                                          *)
(***************************************************************************)
\* The rows of the frame of the run are in table, written by run number runid
FramePersisted(frame, table, runid) ==
    /\ frame # <<>>
    /\ \A i \in 1..Len(frame) :
          \E r \in Rows(table) : /\ r.run = runid
                                  /\ r.entity = frame[i].entity
                                  /\ r.platform = frame[i].platform
                                  /\ r.trend_score = frame[i].trend_score

\* C29: a frame that calculate_trend_scores returns is empty or made of
\* scored rows, for every pair of window and baseline: a trend run that
\* found data ends with an empty frame or with the rows of its scored frame
\* persisted, and never with a failure of save_trends on the frame's columns.
C29_ReturnedFrameScored ==
    [][(run.pc = "scoring" /\ run'.pc = "idle")
          => /\ last'.result # "unscored"
             /\ \/ last'.result = "empty"
                \/ FramePersisted(run'.frame, trends', runs')]_vars

(***************************************************************************)
(* One engine per process.                                                 *)
(***************************************************************************)
\* C30: get_engine creates at most one engine in a process, and all calls
\* return the same instance, also the calls of threads that entered before
\* the first call had finished.
C30_OneEngine ==
    /\ created <= 1
    /\ \A t, u \in Threads :
          (callers[t].pc = "done" /\ callers[u].pc = "done")
              => callers[t].returned = callers[u].returned

====
